---- MODULE Spec2Model ----
(***************************************************************************)
(* Model of the crawler's content acquisition pipeline:                    *)
(*   crawl/detection.py     URL classification and login-wall detection    *)
(*   crawl/scraper.py       the three-step page scrape                     *)
(*   crawl/download/file_downloader.py   the binary download               *)
(*   crawl/temp_file.py     the temporary workspace and its artifacts      *)
(*   crawl/orchestrator.py  process_single_url                             *)
(*   scraper.py             scrape_multiple_websites, the batch driver     *)
(*                                                                         *)
(* Python strings are sequences of one-character strings, so that          *)
(* lower(), endswith(), "in" and urlparse() are computed character by      *)
(* character as the code computes them.                                    *)
(***************************************************************************)
EXTENDS Integers, Sequences, FiniteSets, TLC

(***************************************************************************)
(* Bounds of the model.                                                    *)
(***************************************************************************)
\* URLs of the classifier runs are concatenations of at most this many fragments.
MaxUrlFrags == 3
\* Markups of the wall-detector runs are concatenations of at most this many fragments.
MaxMarkupFrags == 4
\* The batch driver is given at most this many URLs.
MaxBatch == 2

\* the create_temp_* calls of one workspace that reach the counter
MaxTempCalls == 2
\* Markups of the cleaner runs are concatenations of at most this many fragments.
MaxHtmlFrags == 3

\* the set of the elements of a sequence
Range(s) == { s[i] : i \in DOMAIN s }

\* Body(value), value being computed once
Let(value, Body(_)) == CHOOSE result \in { Body(v) : v \in {value} } : TRUE

(***************************************************************************)
(* str: the string operations the code uses.                               *)
(***************************************************************************)
UPPER == {"A", "B", "C", "D", "E", "F", "G", "H", "I", "J", "K", "L", "M", "N", "O", "P", "Q", "R", "S", "T", "U", "V", "W", "X", "Y", "Z"}

ALPHA == UPPER \cup {"a", "b", "c", "d", "e", "f", "g", "h", "i", "j", "k", "l", "m", "n", "o", "p", "q", "r", "s", "t", "u", "v", "w", "x", "y", "z"}

DIGIT == {"0", "1", "2", "3", "4", "5", "6", "7", "8", "9"}

LowerOf ==
    ("A" :> "a") @@ ("B" :> "b") @@ ("C" :> "c") @@ ("D" :> "d") @@ ("E" :> "e") @@ ("F" :> "f") @@ ("G" :> "g") @@ ("H" :> "h") @@ ("I" :> "i") @@ ("J" :> "j") @@ ("K" :> "k") @@ ("L" :> "l") @@ ("M" :> "m") @@ ("N" :> "n") @@ ("O" :> "o") @@ ("P" :> "p") @@ ("Q" :> "q") @@ ("R" :> "r") @@ ("S" :> "s") @@ ("T" :> "t") @@ ("U" :> "u") @@ ("V" :> "v") @@ ("W" :> "w") @@ ("X" :> "x") @@ ("Y" :> "y") @@ ("Z" :> "z")

\* str.lower() on one character: ASCII upper case maps to lower case.
LowerChar(c) == IF c \in UPPER THEN LowerOf[c] ELSE c

\* str.lower()
lower(s) == [i \in 1..Len(s) |-> LowerChar(s[i])]

\* s.endswith(suffix)
endswith(s, suffix) ==
    /\ Len(s) >= Len(suffix)
    /\ SubSeq(s, Len(s) - Len(suffix) + 1, Len(s)) = suffix

\* needle in hay (substring test)
contains(hay, needle) ==
    \E i \in 1..(Len(hay) - Len(needle) + 1) :
        SubSeq(hay, i, i + Len(needle) - 1) = needle

\* s[from:] with a 1-based index
Tail_from(s, from) == SubSeq(s, from, Len(s))

\* The least index >= from at which s holds a character of chars; Len(s)+1 if none.
FindAny(s, chars, from) ==
    IF \E i \in from..Len(s) : s[i] \in chars
    THEN CHOOSE i \in from..Len(s) :
            /\ s[i] \in chars
            /\ \A j \in from..(i - 1) : s[j] \notin chars
    ELSE Len(s) + 1

\* "".join(parts)
RECURSIVE Join(_)
Join(parts) ==
    IF parts = <<>> THEN <<>> ELSE Head(parts) \o Join(Tail(parts))

\* All concatenations of at most n fragments of frags.
Concats(frags, n) ==
    { Join(f) : f \in UNION { [1..k -> frags] : k \in 0..n } }

(***************************************************************************)
(* crawl/detection.py: the fixed tables.                                   *)
(***************************************************************************)
DOWNLOADABLE_EXTENSIONS ==
    { <<".", "p", "d", "f">>,
       <<".", "d", "o", "c">>,
       <<".", "d", "o", "c", "x">>,
       <<".", "x", "l", "s">>,
       <<".", "x", "l", "s", "x">>,
       <<".", "p", "p", "t">>,
       <<".", "p", "p", "t", "x">>,
       <<".", "z", "i", "p">>,
       <<".", "r", "a", "r">>,
       <<".", "7", "z">>,
       <<".", "t", "a", "r">>,
       <<".", "g", "z">>,
       <<".", "b", "z", "2">>,
       <<".", "j", "p", "g">>,
       <<".", "j", "p", "e", "g">>,
       <<".", "p", "n", "g">>,
       <<".", "g", "i", "f">>,
       <<".", "b", "m", "p">>,
       <<".", "t", "i", "f", "f">>,
       <<".", "m", "p", "4">>,
       <<".", "a", "v", "i">>,
       <<".", "m", "o", "v">>,
       <<".", "w", "m", "v">>,
       <<".", "f", "l", "v">>,
       <<".", "w", "e", "b", "m">>,
       <<".", "m", "p", "3">>,
       <<".", "w", "a", "v">>,
       <<".", "f", "l", "a", "c">>,
       <<".", "a", "a", "c">>,
       <<".", "o", "g", "g">>,
       <<".", "t", "x", "t">>,
       <<".", "c", "s", "v">>,
       <<".", "j", "s", "o", "n">>,
       <<".", "x", "m", "l">>,
       <<".", "s", "q", "l">> }

DOWNLOADABLE_CONTENT_TYPES ==
    << <<"a", "p", "p", "l", "i", "c", "a", "t", "i", "o", "n", "/", "p", "d", "f">>,
       <<"a", "p", "p", "l", "i", "c", "a", "t", "i", "o", "n", "/", "m", "s", "w", "o", "r", "d">>,
       <<"a", "p", "p", "l", "i", "c", "a", "t", "i", "o", "n", "/", "v", "n", "d", ".", "o", "p", "e", "n", "x", "m", "l", "f", "o", "r", "m", "a", "t", "s", "-", "o", "f", "f", "i", "c", "e", "d", "o", "c", "u", "m", "e", "n", "t">>,
       <<"a", "p", "p", "l", "i", "c", "a", "t", "i", "o", "n", "/", "v", "n", "d", ".", "m", "s", "-", "e", "x", "c", "e", "l">>,
       <<"a", "p", "p", "l", "i", "c", "a", "t", "i", "o", "n", "/", "v", "n", "d", ".", "m", "s", "-", "p", "o", "w", "e", "r", "p", "o", "i", "n", "t">>,
       <<"a", "p", "p", "l", "i", "c", "a", "t", "i", "o", "n", "/", "z", "i", "p">>,
       <<"a", "p", "p", "l", "i", "c", "a", "t", "i", "o", "n", "/", "o", "c", "t", "e", "t", "-", "s", "t", "r", "e", "a", "m">>,
       <<"i", "m", "a", "g", "e", "/">>,
       <<"v", "i", "d", "e", "o", "/">>,
       <<"a", "u", "d", "i", "o", "/">>,
       <<"a", "p", "p", "l", "i", "c", "a", "t", "i", "o", "n", "/", "j", "s", "o", "n">>,
       <<"t", "e", "x", "t", "/", "c", "s", "v">>,
       <<"a", "p", "p", "l", "i", "c", "a", "t", "i", "o", "n", "/", "x", "m", "l">> >>

STRONG_LOGIN_INDICATORS ==
    << <<"p", "l", "e", "a", "s", "e", " ", "l", "o", "g", " ", "i", "n">>,
       <<"p", "l", "e", "a", "s", "e", " ", "s", "i", "g", "n", " ", "i", "n">>,
       <<"l", "o", "g", "i", "n", " ", "r", "e", "q", "u", "i", "r", "e", "d">>,
       <<"s", "i", "g", "n", " ", "i", "n", " ", "r", "e", "q", "u", "i", "r", "e", "d">>,
       <<"a", "u", "t", "h", "e", "n", "t", "i", "c", "a", "t", "i", "o", "n", " ", "r", "e", "q", "u", "i", "r", "e", "d">>,
       <<"a", "c", "c", "e", "s", "s", " ", "d", "e", "n", "i", "e", "d">>,
       <<"m", "e", "m", "b", "e", "r", "s", " ", "o", "n", "l", "y">>,
       <<"4", "0", "1", " ", "u", "n", "a", "u", "t", "h", "o", "r", "i", "z", "e", "d">>,
       <<"4", "0", "3", " ", "f", "o", "r", "b", "i", "d", "d", "e", "n">>,
       <<"a", "c", "c", "e", "s", "s", " ", "r", "e", "s", "t", "r", "i", "c", "t", "e", "d">>,
       <<"s", "u", "b", "s", "c", "r", "i", "p", "t", "i", "o", "n", " ", "r", "e", "q", "u", "i", "r", "e", "d">>,
       <<"p", "r", "e", "m", "i", "u", "m", " ", "c", "o", "n", "t", "e", "n", "t">>,
       <<"p", "a", "y", "w", "a", "l", "l">> >>

LOGIN_FORM_INDICATORS ==
    << <<"p", "a", "s", "s", "w", "o", "r", "d">>,
       <<"u", "s", "e", "r", "n", "a", "m", "e">>,
       <<"l", "o", "g", "i", "n">>,
       <<"s", "i", "g", "n", " ", "i", "n">>,
       <<"l", "o", "g", " ", "i", "n">> >>

\* detection.config = Config(): the detector's own module-level settings
detection_config == [min_login_indicators |-> 4]

(***************************************************************************)
(* urllib.parse.urlparse as is_downloadable_file calls it.  The model      *)
(* follows urlsplit: an optional scheme, a netloc after "//" up to the     *)
(* first of "/", "?", "#", a ValueError for an unbalanced bracket in the   *)
(* netloc, then the fragment is cut at the first "#" and the query at the  *)
(* first "?".  (The model's URLs hold no whitespace, control characters,   *)
(* ";" or "]".)                                                            *)
(***************************************************************************)
SCHEME_CHARS == ALPHA \cup DIGIT \cup {"+", "-", "."}

\* the index of the first ":" of u, Len(u)+1 if there is none
ColonAt(u) == FindAny(u, {":"}, 1)

HasScheme(u) ==
    /\ ColonAt(u) <= Len(u)
    /\ ColonAt(u) > 1
    /\ u[1] \in ALPHA
    /\ \A j \in 1..(ColonAt(u) - 1) : u[j] \in SCHEME_CHARS

AfterScheme(u) == IF HasScheme(u) THEN Tail_from(u, ColonAt(u) + 1) ELSE u

HasNetloc(r) == Len(r) >= 2 /\ r[1] = "/" /\ r[2] = "/"

\* _splitnetloc(url, 2): the netloc ends before the first of "/", "?", "#"
NetlocEnd(r) == FindAny(r, {"/", "?", "#"}, 3)

Netloc(r) == IF HasNetloc(r) THEN SubSeq(r, 3, NetlocEnd(r) - 1) ELSE <<>>

AfterNetloc(r) == IF HasNetloc(r) THEN Tail_from(r, NetlocEnd(r)) ELSE r

\* ("[" in netloc and "]" not in netloc) or ("]" in netloc and "[" not in netloc)
InvalidIPv6(netloc) ==
    LET open  == \E i \in 1..Len(netloc) : netloc[i] = "["
        close == \E i \in 1..Len(netloc) : netloc[i] = "]"
    IN  (open /\ ~close) \/ (close /\ ~open)

\* url.split("#", 1)[0]
BeforeFragment(r) == SubSeq(r, 1, FindAny(r, {"#"}, 1) - 1)

\* url.split("?", 1)[0]
BeforeQuery(r) == SubSeq(r, 1, FindAny(r, {"?"}, 1) - 1)

\* urlparse(url): raises ValueError, or gives the path component
urlparse(u) ==
    LET r == AfterScheme(u)
    IN  IF InvalidIPv6(Netloc(r))
        THEN [raises |-> TRUE, path |-> <<>>]
        ELSE [raises |-> FALSE, path |-> BeforeQuery(BeforeFragment(AfterNetloc(r)))]

(***************************************************************************)
(* crawl/detection.py: classification.                                     *)
(***************************************************************************)
\* is_downloadable_file comparing the whole URL, query string and fragment
\* included, instead of the path component
is_downloadable_file_whole_url(u) ==
    \E ext \in DOWNLOADABLE_EXTENSIONS : endswith(lower(u), ext)

\* is_downloadable_file(url), for a url that urlparse accepts
is_downloadable_file(u) ==
    LET file_path == lower(urlparse(u).path)
    IN  \E ext \in DOWNLOADABLE_EXTENSIONS : endswith(file_path, ext)

\* What the HEAD request of check_content_type can do: fail (timeout, DNS, TLS),
\* or answer with a Content-Type header (<<>> when the header is absent).
ContentTypeHeaders ==
    { <<>>,
      <<"t", "e", "x", "t", "/", "h", "t", "m", "l">>,
      <<"A", "p", "p", "l", "i", "c", "a", "t", "i", "o", "n", "/", "P", "D", "F">>,
      <<"i", "m", "a", "g", "e", "/", "p", "n", "g">>,
      <<"t", "e", "x", "t", "/", "c", "s", "v", ";", " ", "c", "h", "a", "r", "s", "e", "t", "=", "u", "t", "f", "-", "8">>,
      <<"t", "e", "x", "t", "/", "p", "l", "a", "i", "n">> }

ProbeResponses ==
    { [ok |-> FALSE, header |-> <<>>] } \cup
    { [ok |-> TRUE, header |-> h] : h \in ContentTypeHeaders }

\* check_content_type comparing the header as received, without lowercasing it
check_content_type_case_sensitive(probe) ==
    IF ~probe.ok
    THEN FALSE
    ELSE \E i \in DOMAIN DOWNLOADABLE_CONTENT_TYPES :
            contains(probe.header, DOWNLOADABLE_CONTENT_TYPES[i])

\* check_content_type(url)[0], given what the HEAD request did
check_content_type(probe) ==
    IF ~probe.ok
    THEN FALSE
    ELSE LET content_type == lower(probe.header)
         IN  \E i \in DOMAIN DOWNLOADABLE_CONTENT_TYPES :
                contains(content_type, DOWNLOADABLE_CONTENT_TYPES[i])

(***************************************************************************)
(* crawl/detection.py: the login-wall detector.                            *)
(***************************************************************************)
\* CountPresent counting occurrences up to the first indicator that is absent
RECURSIVE CountPresent_until_absent(_, _)
CountPresent_until_absent(low, indicators) ==
    IF indicators = <<>>
    THEN 0
    ELSE IF contains(low, Head(indicators))
         THEN 1 + CountPresent_until_absent(low, Tail(indicators))
         ELSE 0

\* sum(ind in low for ind in indicators)
RECURSIVE CountPresent(_, _)
CountPresent(low, indicators) ==
    IF indicators = <<>>
    THEN 0
    ELSE (IF contains(low, Head(indicators)) THEN 1 ELSE 0)
         + CountPresent(low, Tail(indicators))

\* check_for_login_screen searching the markup as received, without
\* lowercasing it
check_for_login_screen_case_sensitive(html) ==
    IF \E i \in DOMAIN STRONG_LOGIN_INDICATORS :
          contains(html, STRONG_LOGIN_INDICATORS[i])
    THEN TRUE
    ELSE CountPresent(html, LOGIN_FORM_INDICATORS)
            >= detection_config.min_login_indicators

check_for_login_screen(html) ==
    LET low == lower(html)
    IN  IF \E i \in DOMAIN STRONG_LOGIN_INDICATORS :
              contains(low, STRONG_LOGIN_INDICATORS[i])
        THEN TRUE
        ELSE CountPresent(low, LOGIN_FORM_INDICATORS)
                >= detection_config.min_login_indicators

(***************************************************************************)
(* crawl/config.py, crawl/scraper.py: the scraper's settings and the       *)
(* configuration of one crawler.arun call.                                 *)
(***************************************************************************)
\* crawl.config.config = Config()
config ==
    [ headless |-> TRUE,
      session_id |-> "scrape_session",
      wait_for |-> "css:body",
      page_timeout |-> 60000,
      scroll_timeout |-> 30000,
      scroll_delay |-> 2,
      output_filename |-> "scraped_data.json",
      save_to_file |-> TRUE,
      show_html_preview |-> FALSE,
      min_login_indicators |-> 4 ]

\* make_config(**overrides): base.update(overrides)
make_config(overrides) ==
    LET base == [ wait_for |-> config.wait_for,
                  page_timeout |-> config.page_timeout,
                  session_id |-> config.session_id ]
    IN  [ k \in (DOMAIN base) \cup (DOMAIN overrides) |->
            IF k \in DOMAIN overrides THEN overrides[k] ELSE base[k] ]

\* the keyword-free step {}
EmptyStep == [ k \in {} |-> "" ]

\* steps with the scroll before the navigation
steps_scroll_first ==
    << [ js_code |-> "window.scrollTo(0, document.body.scrollHeight);",
         delay_before_return_html |-> config.scroll_delay,
         page_timeout |-> config.scroll_timeout ],
       EmptyStep,
       EmptyStep >>

\* steps of scrape_webpage: navigate, scroll to the bottom, capture the final HTML
steps ==
    << EmptyStep,
       [ js_code |-> "window.scrollTo(0, document.body.scrollHeight);",
         delay_before_return_html |-> config.scroll_delay,
         page_timeout |-> config.scroll_timeout ],
       EmptyStep >>

(***************************************************************************)
(* The inputs of the pipeline runs and what the collaborators can answer.  *)
(***************************************************************************)
\* "http://e.zip/a.pdf": a recognized extension
UrlPdf ==
    <<"h", "t", "t", "p", ":", "/", "/", "e", ".", "z", "i", "p", "/", "a", ".", "p", "d", "f">>

\* "http://e.zip/a": no extension, the HEAD probe decides
UrlPage == <<"h", "t", "t", "p", ":", "/", "/", "e", ".", "z", "i", "p", "/", "a">>

\* "http://[": urlparse raises ValueError("Invalid IPv6 URL")
UrlBad == <<"h", "t", "t", "p", ":", "/", "/", "[">>

\* "http://e.zip/b": where a navigation may be redirected to
UrlRedirect == <<"h", "t", "t", "p", ":", "/", "/", "e", ".", "z", "i", "p", "/", "b">>

PipelineUrls == {UrlPdf, UrlPage, UrlBad}

\* "<p>hi</p>"
PagePlain == <<"<", "p", ">", "h", "i", "<", "/", "p", ">">>

\* "Please log in": a strong phrase
PageStrongWall == <<"P", "l", "e", "a", "s", "e", " ", "l", "o", "g", " ", "i", "n">>

\* "Password username login sign in": four weak indicators, no strong phrase
PageWeakWall ==
    <<"P", "a", "s", "s", "w", "o", "r", "d", " ", "u", "s", "e", "r", "n", "a", "m", "e", " ",
      "l", "o", "g", "i", "n", " ", "s", "i", "g", "n", " ", "i", "n">>

\* "<title>Hi</title><p>Hello world</p>"
PageTitled == <<"<", "t", "i", "t", "l", "e", ">", "H", "i", "<", "/", "t", "i", "t", "l", "e", ">", "<", "p", ">", "H", "e", "l", "l", "o", " ", "w", "o", "r", "l", "d", "<", "/", "p", ">">>

Pages == {<<>>, PagePlain, PageTitled, PageStrongWall, PageWeakWall}

\* What one crawler.arun(url=u, ...) can do: raise (a timeout), return a result
\* with success False, or return html, the resolved url and a status code.
ArunResponses(u) ==
    { [kind |-> k, html |-> <<>>, url |-> u, status_code |-> 0] :
        k \in {"raises", "not_success"} } \cup
    { [kind |-> "ok", html |-> h, url |-> u, status_code |-> 200] : h \in Pages } \cup
    { [kind |-> "ok", html |-> h, url |-> UrlRedirect, status_code |-> 404] : h \in Pages }

\* What session.get(url) can do: a transport error, or a response with a status
\* and possibly a Content-Type header.
GetResponses ==
    { [kind |-> "transport_error", status |-> 0, content_type |-> "None"] } \cup
    { [kind |-> "response", status |-> s, content_type |-> "None"] :
        s \in {201, 202, 204, 404, 500} } \cup
    { [kind |-> "response", status |-> 200, content_type |-> "application/pdf"] }

\* What storing the downloaded bytes can do (put_object, or open and write).
StoreOutcomes == {"ok", "open_fails", "write_fails"}

\* What shutil.copy2 and the conversion to Markdown can do.
CopyOutcomes == {"ok", "fails", "fails_leaving_file"}

\* Path(path).name: the last component of a path ("" for "" and "/")
RECURSIVE StripSlashes(_)
StripSlashes(p) ==
    IF p # <<>> /\ p[Len(p)] = "/" THEN StripSlashes(SubSeq(p, 1, Len(p) - 1)) ELSE p

RECURSIVE LastComponent(_)
LastComponent(p) ==
    IF p = <<>> \/ p[Len(p)] = "/"
    THEN <<>>
    ELSE LastComponent(SubSeq(p, 1, Len(p) - 1)) \o <<p[Len(p)]>>

PathName(p) == LastComponent(StripSlashes(p))

\* Path(urlparse(url).path).name or "downloaded_file"
Filename(u) ==
    IF PathName(urlparse(u).path) # <<>>
    THEN PathName(urlparse(u).path)
    ELSE <<"d", "o", "w", "n", "l", "o", "a", "d", "e", "d", "_", "f", "i", "l", "e">>

\* a directory after writing (or overwriting) the file name with content
WriteFile(dir, name, content) ==
    { f \in dir : f.name # name } \cup { [name |-> name, content |-> content] }

\* a directory after removing the file name
RemoveFile(dir, name) == { f \in dir : f.name # name }

\* os.path.exists(name) in a directory
Exists(dir, name) == \E f \in dir : f.name = name

\* the content of the file name of a directory
ContentOf(dir, name) == (CHOOSE f \in dir : f.name = name).content

(***************************************************************************)
(* crawl/types.py: ScrapeResult, and the three results scrape_webpage      *)
(* builds.  None is "None" for a string and <<>> for a list.               *)
(***************************************************************************)
ScrapeResult(success, u, status, html, error, error_type, message, instructions, causes) ==
    [ success |-> success, url |-> u, status_code |-> status, html |-> html,
      error |-> error, error_type |-> error_type, message |-> message,
      instructions |-> instructions, possible_causes |-> causes ]

\* _crawl_steps' return value
CrawlSucceeded(u, status, html) ==
    ScrapeResult(TRUE, u, status, html, "None", "None", "None", <<>>, <<>>)

\* scrape_webpage: the login screen was detected
LoginRequired(u) ==
    ScrapeResult(FALSE, u, 0, <<>>, "None", "login_required",
                 "Page requires authentication",
                 << "Visit the page manually in your browser",
                    "Log in if required",
                    "Copy and paste the content you need" >>,
                 <<>>)

\* scrape_webpage: except Exception as error
ScrapingFailed(u, error) ==
    ScrapeResult(FALSE, u, 0, <<>>, error, "scraping_failed",
                 "Unable to access page automatically",
                 << "Visit the page manually in your browser",
                    "Copy and paste the content you need" >>,
                 << "Login/authentication requirements",
                    "Anti-bot protection",
                    "Network restrictions",
                    "Page loading issues" >>)

\* no scrape has run
NoScrape == ScrapeResult(FALSE, <<>>, 0, <<>>, "None", "None", "None", <<>>, <<>>)

(***************************************************************************)
(* crawl/download/file_downloader.py: process_file_download.               *)
(***************************************************************************)
\* the bytes a URL serves are identified by the URL
BytesOf(u) == u

\* DownloadError without the check of the response status
DownloadError_ignores_status(get, store) ==
    IF get.kind = "transport_error" THEN <<"ClientError">>
    ELSE IF store # "ok" THEN <<"StorageError">>
    ELSE <<>>

\* the error of a download, <<>> if it succeeds
DownloadError(get, store) ==
    IF get.kind = "transport_error" THEN <<"ClientError">>
    ELSE IF get.status \notin {200, 202} THEN <<"HTTP", get.status>>
    ELSE IF store # "ok" THEN <<"StorageError">>
    ELSE <<>>

\* process_file_download saving the file locally before it uploads it, and
\* reporting both places
process_file_download_both_places(u, get, use_s3, store) ==
    LET content_type == IF get.content_type = "None"
                        THEN "application/octet-stream" ELSE get.content_type
    IN  IF DownloadError(get, store) # <<>>
        THEN [ success |-> FALSE, file_type |-> "download", original_url |-> u,
               error |-> DownloadError(get, store) ]
        ELSE IF use_s3
        THEN [ success |-> TRUE, file_type |-> "download", original_url |-> u,
               local_path |-> <<"downloads", Filename(u)>>,
               s3_key |-> <<"downloads", Filename(u)>>,
               s3_url |-> <<"https://bucket.s3.region.amazonaws.com", "downloads", Filename(u)>>,
               file_size |-> Len(BytesOf(u)), content_type |-> content_type ]
        ELSE [ success |-> TRUE, file_type |-> "download", original_url |-> u,
               local_path |-> <<"downloads", Filename(u)>>,
               file_size |-> Len(BytesOf(u)), content_type |-> content_type ]

\* the dictionary process_file_download returns
process_file_download(u, get, use_s3, store) ==
    LET content_type == IF get.content_type = "None"
                        THEN "application/octet-stream" ELSE get.content_type
    IN  IF DownloadError(get, store) # <<>>
        THEN [ success |-> FALSE, file_type |-> "download", original_url |-> u,
               error |-> DownloadError(get, store) ]
        ELSE IF use_s3
        THEN [ success |-> TRUE, file_type |-> "download", original_url |-> u,
               s3_key |-> <<"downloads", Filename(u)>>,
               s3_url |-> <<"https://bucket.s3.region.amazonaws.com", "downloads", Filename(u)>>,
               file_size |-> Len(BytesOf(u)), content_type |-> content_type ]
        ELSE [ success |-> TRUE, file_type |-> "download", original_url |-> u,
               local_path |-> <<"downloads", Filename(u)>>,
               file_size |-> Len(BytesOf(u)), content_type |-> content_type ]

\* the downloads directory after process_file_download
DownloadsAfter(dir, u, get, use_s3, store) ==
    IF DownloadError(get, "ok") # <<>> \/ use_s3 \/ store = "open_fails"
    THEN dir
    ELSE WriteFile(dir, Filename(u), IF store = "ok" THEN BytesOf(u) ELSE <<>>)

\* no download has run
NoDownload == [ success |-> FALSE, file_type |-> "None" ]

\* dict.get(key) on a download result; None is <<>>
Get(d, key) == IF key \in DOMAIN d THEN d[key] ELSE <<>>

\* a or b, for strings
Or(a, b) == IF a # "None" /\ a # "" THEN a ELSE b

(***************************************************************************)
(* The state.                                                              *)
(***************************************************************************)
VARIABLES
    mode,             \* "single": process_single_url(url); "batch": scrape_multiple_websites(urls)
    urls,             \* the batch driver's argument
    idx,              \* how many URLs the batch driver's loop has taken
    pc,               \* where the run is
    url,              \* the URL being processed
    exception,        \* the exception that escaped to the caller, "None" if none
    is_downloadable,  \* check_if_downloadable's return value
    probe_calls,      \* HEAD requests issued for this URL
    head_response,    \* what the HEAD request did, from check_if_downloadable's return
                      \* until the retrieval starts; NoResponse otherwise
    get_response,     \* what the GET request of this URL did, NoResponse if none was issued
    temp_dir,         \* TempFileManager.temp_dir: "None", or "open" once mkdtemp made it
    file_counter,     \* TempFileManager.file_counter
    workspace,        \* the files of the temporary directory
    artifact_paths,   \* the paths the create_temp_* calls of this workspace returned
    downloads,        \* the files of the downloads directory
    download_result,  \* process_file_download's return value
    crawler,          \* the AsyncWebCrawler: "none", "open", "closed"
    step,             \* steps of _crawl_steps completed
    final_html,       \* _crawl_steps' locals
    final_url,
    status_code,
    arun_log,         \* the url and configuration of every crawler.arun call for this URL
    scraping_result,  \* scrape_webpage's return value
    temp_file_path,   \* process_single_url's local; <<>> is None
    result,           \* process_single_url's result dictionary
    scraped_results,  \* scrape_multiple_websites' dictionary
    stages,           \* the stages this URL's run has entered, in order
    transfer_calls,   \* process_file_download calls for this URL
    render_calls,     \* scrape_webpage calls for this URL
    copy_calls,       \* create_temp_document calls for this URL
    artifact_outcome, \* what the last create_temp_* call of this URL met
    scraper_config,   \* crawl.config.config, the settings object of the scraper, as the run finds it
    tasks             \* the coroutines suspended at an await while another one runs

vars ==
    << mode, urls, idx, pc, url, exception, is_downloadable, probe_calls,
       head_response, get_response, temp_dir,
       file_counter, workspace, artifact_paths, downloads, download_result, crawler, step,
       final_html,
       final_url, status_code, arun_log, scraping_result, temp_file_path, result,
       scraped_results, stages, transfer_calls, render_calls, copy_calls,
       artifact_outcome, scraper_config, tasks >>

inputVars == <<mode, urls, scraper_config, tasks>>
batchVars == <<idx, scraped_results>>
tempVars == <<temp_dir, file_counter, workspace, artifact_paths>>
crawlVars == <<crawler, step, final_html, final_url, status_code, arun_log>>
callVars == <<transfer_calls, render_calls, copy_calls, artifact_outcome>>
httpVars == <<head_response, get_response>>

\* no create_temp_* call was made
NoArtifactCall == [call |-> "none"]

\* the record of a create_temp_document call
DocumentCall(source_path, original_filename, copy, remove_ok) ==
    [ call |-> "create_temp_document", outcome |-> copy, remove_ok |-> remove_ok,
      source_path |-> source_path, original_filename |-> original_filename ]

\* the record of a create_temp_markdown call
MarkdownCall(html_content, outcome) ==
    [ call |-> "create_temp_markdown",
      outcome |-> IF html_content = <<>> THEN "not_run" ELSE outcome ]

\* the record of a call of one of the cleanup functions
CleanupCall(name, outcome) == [ call |-> name, outcome |-> outcome ]

\* no request was issued
NoResponse == [kind |-> "none"]

\* no result dictionary yet
NoResult == [ status |-> "None", type |-> "None" ]

\* the empty dictionary
EmptyDict == [ u \in {} |-> NoResult ]

\* The state of one URL's processing before it starts.
FreshRun(u) ==
    /\ url = u
    /\ exception = "None"
    /\ is_downloadable = FALSE
    /\ probe_calls = 0
    /\ head_response = NoResponse
    /\ get_response = NoResponse
    /\ download_result = NoDownload
    /\ crawler = "none"
    /\ step = 0
    /\ final_html = <<>>
    /\ final_url = u
    /\ status_code = 0
    /\ arun_log = <<>>
    /\ scraping_result = NoScrape
    /\ temp_file_path = <<>>
    /\ result = NoResult
    /\ stages = <<>>
    /\ transfer_calls = 0
    /\ render_calls = 0
    /\ copy_calls = 0
    /\ artifact_outcome = NoArtifactCall

\* The lists a batch is run on.
UrlLists == UNION { [1..n -> PipelineUrls] : n \in 0..MaxBatch }

Init ==
    /\ scraper_config = config
    /\ tasks = <<>>
    /\ temp_dir = "None"
    /\ file_counter = 0
    /\ workspace = {}
    /\ artifact_paths = <<>>
    /\ downloads = {}
    /\ idx = 0
    /\ scraped_results = EmptyDict
    /\ \/ /\ mode = "single"
          /\ urls = <<>>
          /\ pc = "start"
          /\ \E u \in PipelineUrls : FreshRun(u)
       \/ /\ mode = "batch"
          /\ urls \in UrlLists
          /\ pc = "loop"
          /\ FreshRun(<<>>)

(***************************************************************************)
(* crawl/detection.py: check_if_downloadable.  probe is what the HEAD      *)
(* request does if it is issued; probes counts the requests issued.        *)
(***************************************************************************)
check_if_downloadable(u, probe) ==
    IF is_downloadable_file(u)
    THEN [value |-> TRUE, probes |-> 0]
    ELSE [value |-> check_content_type(probe), probes |-> 1]

(***************************************************************************)
(* bs4.BeautifulSoup(markup, 'html.parser').  The parser cuts the markup   *)
(* into tags, comments and text; the tree is kept as the sequence of its   *)
(* nodes in document order, each with its depth.  The markups of the model *)
(* carry no attributes and no character references.                        *)
(***************************************************************************)
WHITESPACE == {" ", "\n", "\t", "\r"}

\* s.lstrip()
RECURSIVE lstrip(_)
lstrip(s) == IF s # <<>> /\ Head(s) \in WHITESPACE THEN lstrip(Tail(s)) ELSE s

\* s.rstrip()
RECURSIVE rstrip(_)
rstrip(s) ==
    IF s # <<>> /\ s[Len(s)] \in WHITESPACE THEN rstrip(SubSeq(s, 1, Len(s) - 1)) ELSE s

\* s.strip()
strip(s) == rstrip(lstrip(s))

\* s.startswith(prefix)
startswith(s, prefix) == Len(s) >= Len(prefix) /\ SubSeq(s, 1, Len(prefix)) = prefix

\* The least index >= from at which needle starts in s; Len(s)+1 if none.
Find(s, needle, from) ==
    LET hits == { i \in from..(Len(s) - Len(needle) + 1) :
                    SubSeq(s, i, i + Len(needle) - 1) = needle }
    IN  IF hits = {} THEN Len(s) + 1 ELSE CHOOSE i \in hits : \A j \in hits : i <= j

\* what the parser hands to the tree builder
Token(kind, name, data) == [kind |-> kind, name |-> name, data |-> data]

\* the elements whose content the parser reads as text up to their end tag
CDATA_CONTENT_ELEMENTS == { <<"s", "c", "r", "i", "p", "t">>, <<"s", "t", "y", "l", "e">> }

\* the elements the tree builder closes as soon as they open
EMPTY_ELEMENT_TAGS == { <<"i", "m", "g">>, <<"b", "r">>, <<"h", "r">>, <<"m", "e", "t", "a">>, <<"l", "i", "n", "k">>, <<"e", "m", "b", "e", "d">> }

\* HTMLParser.parse_starttag: the tokens of a start tag and, for a script or
\* style element, of its content, and the markup after them; closed tells
\* that the tag ends with "/>"
parse_starttag(name, closed, rest) ==
    LET start == IF closed /\ name \notin EMPTY_ELEMENT_TAGS
                 THEN <<Token("start", name, <<>>), Token("end", name, <<>>)>>
                 ELSE <<Token("start", name, <<>>)>>
        c == Find(lower(rest), <<"<", "/">> \o name, 1)
    IN  IF name \in CDATA_CONTENT_ELEMENTS /\ ~closed
        THEN [ tokens |-> start \o (IF c > 1
                                    THEN <<Token("text", <<>>, SubSeq(rest, 1, c - 1))>>
                                    ELSE <<>>),
               rest |-> Tail_from(rest, c) ]
        ELSE [ tokens |-> start, rest |-> rest ]

\* HTMLParser.goahead, one round of its loop: the tokens of the first
\* construct of a markup that is not empty, and the markup after it
goahead(s) ==
    IF startswith(s, <<"<", "!", "-", "-">>)
    THEN LET e == Find(s, <<"-", "-", ">">>, 5)
         IN  [ tokens |-> <<Token("comment", <<>>, SubSeq(s, 5, e - 1))>>,
               rest |-> Tail_from(s, e + 3) ]
    ELSE IF startswith(s, <<"<", "/">>)
    THEN LET e == Find(s, <<">">>, 3)
         IN  [ tokens |-> <<Token("end", lower(SubSeq(s, 3, e - 1)), <<>>)>>,
               rest |-> Tail_from(s, e + 1) ]
    ELSE IF Len(s) >= 2 /\ s[1] = "<" /\ s[2] \in ALPHA
    THEN Let(Find(s, <<">">>, 2), LAMBDA e :
             parse_starttag(lower(SubSeq(s, 2, IF s[e - 1] = "/" THEN e - 2 ELSE e - 1)),
                            s[e - 1] = "/", Tail_from(s, e + 1)))
    ELSE LET e == FindAny(s, {"<"}, 2)
         IN  [ tokens |-> <<Token("text", <<>>, SubSeq(s, 1, e - 1))>>,
               rest |-> Tail_from(s, e) ]

\* HTMLParser.feed: the tokens of a markup
RECURSIVE feed(_)
feed(s) ==
    IF s = <<>> THEN <<>>
    ELSE Let(goahead(s), LAMBDA first : first.tokens \o feed(first.rest))

\* a node of the tree: a Tag, or a NavigableString or Comment
Node(kind, name, data, depth) == [kind |-> kind, name |-> name, data |-> data, depth |-> depth]

\* BeautifulSoup.endData: a string of whitespace only is kept as one newline or one space
endData(data) ==
    IF strip(data) # <<>> THEN data
    ELSE IF "\n" \in Range(data) THEN <<"\n">> ELSE <<" ">>

\* BeautifulSoup._popToTag: the open elements after an end tag; an end tag
\* that closes nothing is dropped
_popToTag(stack, name) ==
    IF \E i \in DOMAIN stack : stack[i] = name
    THEN SubSeq(stack, 1, (CHOOSE i \in DOMAIN stack :
                              /\ stack[i] = name
                              /\ \A j \in DOMAIN stack : stack[j] = name => j <= i) - 1)
    ELSE stack

\* the tree builder: the nodes of the tokens, stack being the open elements
RECURSIVE Tree(_, _)
Tree(tokens, stack) ==
    IF tokens = <<>> THEN <<>>
    ELSE LET t == Head(tokens)
             depth == Len(stack)
             nodes == CASE t.kind = "start" -> <<Node("tag", t.name, <<>>, depth)>>
                        [] t.kind = "end" -> <<>>
                        [] t.kind = "text" -> <<Node("text", <<>>, endData(t.data), depth)>>
                        [] OTHER -> <<Node("comment", <<>>, t.data, depth)>>
             open == CASE t.kind = "start" /\ t.name \notin EMPTY_ELEMENT_TAGS ->
                            Append(stack, t.name)
                       [] t.kind = "end" -> _popToTag(stack, t.name)
                       [] OTHER -> stack
         IN  nodes \o Tree(Tail(tokens), open)

\* BeautifulSoup(markup, 'html.parser')
BeautifulSoup(markup) == Tree(feed(markup), <<>>)

\* the index of the last node of the subtree of node i
SubtreeEnd(soup, i) ==
    LET after == { j \in (i + 1)..Len(soup) : soup[j].depth <= soup[i].depth }
    IN  IF after = {} THEN Len(soup) ELSE (CHOOSE j \in after : \A k \in after : j <= k) - 1

\* element.find_all(names): the indices of the descendants of node i with a name of names
find_all_in(soup, i, names) ==
    { j \in (i + 1)..SubtreeEnd(soup, i) : soup[j].kind = "tag" /\ soup[j].name \in names }

\* soup.find_all(names): the indices of the elements with a name of names
find_all(soup, names) ==
    { j \in DOMAIN soup : soup[j].kind = "tag" /\ soup[j].name \in names }

\* get_text(separator, strip=True) over the nodes from..to: the stripped
\* strings that are not empty, joined; comments are not text
RECURSIVE get_text(_, _, _, _)
get_text(soup, from, to, separator) ==
    IF from > to THEN <<>>
    ELSE LET here == IF soup[from].kind = "text" THEN strip(soup[from].data) ELSE <<>>
             rest == get_text(soup, from + 1, to, separator)
         IN  IF here = <<>> THEN rest
             ELSE IF rest = <<>> THEN here
             ELSE here \o separator \o rest

\* element.get_text(strip=True) of node i
text_of(soup, i) == get_text(soup, i, SubtreeEnd(soup, i), <<>>)

\* the tree without the nodes of gone
RECURSIVE Without(_, _, _)
Without(soup, gone, i) ==
    IF i > Len(soup) THEN <<>>
    ELSE (IF i \in gone THEN <<>> ELSE <<soup[i]>>) \o Without(soup, gone, i + 1)

\* element.decompose() or string.extract() on each node of roots
decompose(soup, roots) ==
    Without(soup, UNION { i..SubtreeEnd(soup, i) : i \in roots }, 1)

\* the end tags of the open elements deeper than depth, innermost first
RECURSIVE CloseTo(_, _)
CloseTo(stack, depth) ==
    IF Len(stack) <= depth THEN <<>>
    ELSE <<"<", "/">> \o stack[Len(stack)] \o <<">">> \o
         CloseTo(SubSeq(stack, 1, Len(stack) - 1), depth)

\* str(soup) from node i on, stack being the open elements
RECURSIVE decode(_, _, _)
decode(soup, i, stack) ==
    IF i > Len(soup) THEN CloseTo(stack, 0)
    ELSE LET n == soup[i]
             open == SubSeq(stack, 1, n.depth)
             output == CASE n.kind = "tag" /\ n.name \in EMPTY_ELEMENT_TAGS ->
                              <<"<">> \o n.name \o <<"/", ">">>
                         [] n.kind = "tag" -> <<"<">> \o n.name \o <<">">>
                         [] n.kind = "text" -> n.data
                         [] OTHER -> <<"<", "!", "-", "-">> \o n.data \o <<"-", "-", ">">>
             inside == IF n.kind = "tag" /\ n.name \notin EMPTY_ELEMENT_TAGS
                       THEN Append(open, n.name) ELSE open
         IN  CloseTo(stack, n.depth) \o output \o decode(soup, i + 1, inside)

(***************************************************************************)
(* crawl/clean/html_cleaner.py                                             *)
(***************************************************************************)
\* unwanted_tags of clean_html
unwanted_tags ==
    { <<"s", "c", "r", "i", "p", "t">>, <<"s", "t", "y", "l", "e">>, <<"n", "a", "v">>, <<"h", "e", "a", "d", "e", "r">>, <<"f", "o", "o", "t", "e", "r">>, <<"a", "s", "i", "d", "e">>, <<"i", "f", "r", "a", "m", "e">>,
      <<"n", "o", "s", "c", "r", "i", "p", "t">>, <<"m", "e", "t", "a">>, <<"l", "i", "n", "k">> }

\* the strings clean_html takes for comments: those whose text starts with "<!--"
LooksLikeComment(soup) ==
    { i \in DOMAIN soup :
        soup[i].kind # "tag" /\ startswith(strip(soup[i].data), <<"<", "!", "-", "-">>) }

\* the elements clean_html takes for empty: no text, and no img, br or hr below them
EmptyElements(soup) ==
    { i \in DOMAIN soup :
        /\ soup[i].kind = "tag"
        /\ text_of(soup, i) = <<>>
        /\ find_all_in(soup, i, { <<"i", "m", "g">>, <<"b", "r">>, <<"h", "r">> }) = {} }

\* clean_html(html_content)
clean_html(html_content) ==
    IF html_content = <<>> THEN <<>>
    ELSE Let(BeautifulSoup(html_content), LAMBDA soup :
         Let(decompose(soup, find_all(soup, unwanted_tags)), LAMBDA wanted :
         Let(decompose(wanted, LooksLikeComment(wanted)), LAMBDA uncommented :
         decode(decompose(uncommented, EmptyElements(uncommented)), 1, <<>>))))

\* str(d) for a digit d
DigitChar(d) == <<"0", "1", "2", "3", "4", "5", "6", "7", "8", "9">>[d + 1]

\* str(k) for a natural number k
RECURSIVE Decimal(_)
Decimal(k) == IF k < 10 THEN <<DigitChar(k)>> ELSE Decimal(k \div 10) \o <<DigitChar(k % 10)>>

\* the elements of a set of indices, ascending
RECURSIVE Ascending(_)
Ascending(indices) ==
    IF indices = {} THEN <<>>
    ELSE LET least == CHOOSE i \in indices : \A j \in indices : i <= j
         IN  <<least>> \o Ascending(indices \ {least})

\* re.sub(r'\s+', ' ', text)
collapse_whitespace(text) ==
    SelectSeq([i \in DOMAIN text |->
                 IF text[i] \notin WHITESPACE THEN text[i]
                 ELSE IF i > 1 /\ text[i - 1] \in WHITESPACE THEN "" ELSE " "],
              LAMBDA c : c # "")

\* len(text.split())
word_count(text) ==
    Cardinality({ i \in DOMAIN text :
                    text[i] \notin WHITESPACE /\ (i = 1 \/ text[i - 1] \in WHITESPACE) })

\* text[:n] + "..." if len(text) > n else text
Truncated(text, n) ==
    IF Len(text) > n THEN SubSeq(text, 1, n) \o <<".", ".", ".">> ELSE text

\* extract_text_content(html)
extract_text_content(html) ==
    IF html = <<>> THEN <<>>
    ELSE Let(BeautifulSoup(html), LAMBDA soup :
             strip(collapse_whitespace(get_text(soup, 1, Len(soup), <<" ">>))))

\* [element.get_text(strip=True) for element in elements]
TextsOf(soup, elements) == [k \in DOMAIN elements |-> text_of(soup, elements[k])]

\* the texts of a sequence that are not empty
NonEmpty(texts) == SelectSeq(texts, LAMBDA t : t # <<>>)

\* the headings of extract_structured_content: every h1, then every h2, ...
RECURSIVE Headings(_, _)
Headings(soup, level) ==
    IF level > 6 THEN <<>>
    ELSE Let(Ascending(find_all(soup, { <<"h", DigitChar(level)>> })), LAMBDA found :
             [k \in DOMAIN found |-> [ level |-> <<"h", DigitChar(level)>>,
                                       text |-> text_of(soup, found[k]) ]]) \o
         Headings(soup, level + 1)

\* the lists of extract_structured_content: the items with text of every ul and ol that has some
Lists(soup) ==
    LET items(i) == NonEmpty(TextsOf(soup, Ascending(find_all_in(soup, i, { <<"l", "i">> }))))
    IN  Let(Ascending(find_all(soup, { <<"u", "l">>, <<"o", "l">> })), LAMBDA found :
            SelectSeq([k \in DOMAIN found |-> [ type |-> soup[found[k]].name,
                                                items |-> items(found[k]) ]],
                      LAMBDA l : l.items # <<>>))

\* extract_structured_content(html); a Tag is true even when it is empty, so
\* an empty title element hides the h1
extract_structured_content(html) ==
    IF html = <<>>
    THEN [title |-> <<>>, headings |-> <<>>, paragraphs |-> <<>>, lists |-> <<>>]
    ELSE Let(BeautifulSoup(html), LAMBDA soup :
             LET titles == Ascending(find_all(soup, { <<"t", "i", "t", "l", "e">> }))
                 h1s == Ascending(find_all(soup, { <<"h", "1">> }))
             IN  [ title |-> IF titles # <<>> THEN text_of(soup, titles[1])
                             ELSE IF h1s # <<>> THEN text_of(soup, h1s[1])
                             ELSE <<>>,
                   headings |-> Headings(soup, 1),
                   paragraphs |-> NonEmpty(TextsOf(soup, Ascending(find_all(soup, { <<"p">> })))),
                   lists |-> Lists(soup) ])

\* crawl/clean/parsing.py extract_description(response_text), for a text that
\* does not start a json code block
extract_description(response_text) == Truncated(response_text, 200)

\* process_html_content(html_content)
process_html_content(html_content) ==
    Let(clean_html(html_content), LAMBDA cleaned_html :
    Let(extract_text_content(cleaned_html), LAMBDA text_content :
        [ cleaned_html |-> cleaned_html,
          text_content |-> text_content,
          description |-> extract_description(text_content),
          structured_content |-> extract_structured_content(cleaned_html),
          word_count |-> word_count(text_content),
          char_count |-> Len(text_content) ]))

\* unwanted_tags of clean_and_format_html
unwanted_tags_format ==
    unwanted_tags \cup { <<"s", "v", "g">>, <<"c", "a", "n", "v", "a", "s">>, <<"e", "m", "b", "e", "d">>, <<"o", "b", "j", "e", "c", "t">> }

\* n spaces
RECURSIVE Indent(_)
Indent(n) == IF n = 0 THEN <<>> ELSE <<" ">> \o Indent(n - 1)

\* the end tags of the open elements deeper than depth, one a line
RECURSIVE CloseLinesTo(_, _)
CloseLinesTo(stack, depth) ==
    IF Len(stack) <= depth THEN <<>>
    ELSE Indent(Len(stack) - 1) \o <<"<", "/">> \o stack[Len(stack)] \o <<">", "\n">> \o
         CloseLinesTo(SubSeq(stack, 1, Len(stack) - 1), depth)

\* soup.prettify() from node i on: every tag and every stripped string that
\* is not empty on a line of its own, indented by its depth
RECURSIVE prettify(_, _, _)
prettify(soup, i, stack) ==
    IF i > Len(soup) THEN CloseLinesTo(stack, 0)
    ELSE LET n == soup[i]
             open == SubSeq(stack, 1, n.depth)
             rest(opened) == prettify(soup, i + 1, opened)
         IN  CloseLinesTo(stack, n.depth) \o
             CASE n.kind = "tag" /\ n.name \in EMPTY_ELEMENT_TAGS ->
                    Indent(n.depth) \o <<"<">> \o n.name \o <<"/", ">", "\n">> \o rest(open)
               [] n.kind = "tag" ->
                    Indent(n.depth) \o <<"<">> \o n.name \o <<">", "\n">> \o rest(Append(open, n.name))
               [] n.kind = "text" ->
                    (IF strip(n.data) = <<>> THEN <<>>
                     ELSE Indent(n.depth) \o strip(n.data) \o <<"\n">>) \o rest(open)
               [] OTHER ->
                    Indent(n.depth) \o <<"<", "!", "-", "-">> \o n.data \o <<"-", "-", ">", "\n">> \o rest(open)

\* clean_and_format_html(html_content); the elements of the model have no
\* attributes to clean
clean_and_format_html(html_content) ==
    IF html_content = <<>> THEN <<>>
    ELSE Let(BeautifulSoup(html_content), LAMBDA soup :
             prettify(decompose(soup, find_all(soup, unwanted_tags_format)), 1, <<>>))

(***************************************************************************)
(* crawl/clean/markdownfile_maker.py                                       *)
(***************************************************************************)
\* the grave accent, the character of Markdown code spans, by its code point
GRAVE == "U+0060"

\* text.split('\n')
RECURSIVE split_lines(_)
split_lines(text) ==
    LET e == FindAny(text, {"\n"}, 1)
    IN  IF e > Len(text) THEN <<text>>
        ELSE <<SubSeq(text, 1, e - 1)>> \o split_lines(Tail_from(text, e + 1))

\* '\n'.join(lines)
RECURSIVE join_lines(_)
join_lines(lines) ==
    IF lines = <<>> THEN <<>>
    ELSE IF Len(lines) = 1 THEN lines[1]
    ELSE lines[1] \o <<"\n">> \o join_lines(Tail(lines))

\* '#' * level
RECURSIVE Hashes(_)
Hashes(level) == IF level = 0 THEN <<>> ELSE <<"#">> \o Hashes(level - 1)

\* the lines of convert_list_to_markdown for the items from k on
RECURSIVE ListLines(_, _, _, _)
ListLines(soup, items, k, is_ordered) ==
    IF k > Len(items) THEN <<>>
    ELSE LET text == text_of(soup, items[k])
         IN  (IF text = <<>> THEN <<>>
              ELSE IF is_ordered THEN Decimal(k) \o <<".", " ">> \o text \o <<"\n">>
              ELSE <<"-", " ">> \o text \o <<"\n">>) \o
             ListLines(soup, items, k + 1, is_ordered)

\* convert_list_to_markdown(list_element) for the list at node i
convert_list_to_markdown(soup, i) ==
    LET items == Ascending({ j \in find_all_in(soup, i, { <<"l", "i">> }) :
                               soup[j].depth = soup[i].depth + 1 })
    IN  ListLines(soup, items, 1, soup[i].name = <<"o", "l">>) \o <<"\n">>

\* what html_to_markdown appends for the element at node i
MarkdownOf(soup, i) ==
    LET name == soup[i].name
        text == text_of(soup, i)
        quoted == SelectSeq(split_lines(text), LAMBDA line : strip(line) # <<>>)
    IN  CASE Len(name) = 2 /\ name[1] = "h" /\ name[2] \in {"1", "2", "3", "4", "5", "6"} ->
               Hashes(CHOOSE level \in 1..6 : DigitChar(level) = name[2]) \o <<" ">> \o text \o <<"\n", "\n">>
          [] name = <<"p">> ->
               IF text # <<>> THEN text \o <<"\n", "\n">> ELSE <<>>
          [] name = <<"a">> ->
               IF text # <<>> THEN <<"[">> \o text \o <<"]", "(", "#", ")">> ELSE <<>>
          [] name \in { <<"u", "l">>, <<"o", "l">> } ->
               convert_list_to_markdown(soup, i)
          [] name \in { <<"s", "t", "r", "o", "n", "g">>, <<"b">> } ->
               IF text # <<>> THEN <<"*", "*">> \o text \o <<"*", "*">> ELSE <<>>
          [] name \in { <<"e", "m">>, <<"i">> } ->
               IF text # <<>> THEN <<"*">> \o text \o <<"*">> ELSE <<>>
          [] name = <<"c", "o", "d", "e">> ->
               IF text # <<>> THEN <<GRAVE>> \o text \o <<GRAVE>> ELSE <<>>
          [] name = <<"p", "r", "e">> ->
               IF text # <<>>
               THEN <<GRAVE, GRAVE, GRAVE, "\n">> \o text \o <<"\n", GRAVE, GRAVE, GRAVE, "\n", "\n">>
               ELSE <<>>
          [] name = <<"b", "l", "o", "c", "k", "q", "u", "o", "t", "e">> ->
               IF text # <<>>
               THEN join_lines([k \in DOMAIN quoted |-> <<">", " ">> \o quoted[k]]) \o <<"\n", "\n">>
               ELSE <<>>
          [] name = <<"h", "r">> -> <<"-", "-", "-", "\n", "\n">>
          [] name = <<"b", "r">> -> <<"\n">>
          [] OTHER -> <<>>

\* the markdown of the elements from node i on, in document order
RECURSIVE MarkdownFrom(_, _)
MarkdownFrom(soup, i) ==
    IF i > Len(soup) THEN <<>>
    ELSE (IF soup[i].kind = "tag" THEN MarkdownOf(soup, i) ELSE <<>>) \o
         MarkdownFrom(soup, i + 1)

\* re.sub(r'\n\s*\n\s*\n', '\n\n', text): from a newline on, a run of
\* whitespace holding three newlines or more is cut down to two newlines, up
\* to its last newline
RECURSIVE squeeze_blank_lines(_)
squeeze_blank_lines(text) ==
    IF text = <<>> THEN <<>>
    ELSE IF Head(text) # "\n"
    THEN Let(FindAny(text, {"\n"}, 1), LAMBDA e :
             SubSeq(text, 1, e - 1) \o squeeze_blank_lines(Tail_from(text, e)))
    ELSE LET run == Len(text) - Len(lstrip(text))
             newlines == { i \in 1..run : text[i] = "\n" }
             last == CHOOSE i \in newlines : \A j \in newlines : j <= i
         IN  IF Cardinality(newlines) >= 3
             THEN <<"\n", "\n">> \o squeeze_blank_lines(Tail_from(text, last + 1))
             ELSE <<"\n">> \o squeeze_blank_lines(Tail(text))

\* html_to_markdown without the final strip()
html_to_markdown_untrimmed(html_content) ==
    IF html_content = <<>> THEN <<>>
    ELSE squeeze_blank_lines(MarkdownFrom(BeautifulSoup(html_content), 1))

\* html_to_markdown(html_content)
html_to_markdown(html_content) ==
    IF html_content = <<>> THEN <<>>
    ELSE strip(squeeze_blank_lines(MarkdownFrom(BeautifulSoup(html_content), 1)))

\* datetime.now().strftime('%Y-%m-%d %H:%M:%S')
now == <<"2", "0", "2", "5", "-", "0", "1", "-", "0", "1", " ", "0", "0", ":", "0", "0", ":", "0", "0">>

\* create_markdown_header(title, url, description)
create_markdown_header(title, u, description) ==
    <<"#", " ">> \o title \o <<"\n", "\n">> \o
    (IF u # <<>> THEN <<"*", "*", "S", "o", "u", "r", "c", "e", " ", "U", "R", "L", ":", "*", "*", " ">> \o u \o <<"\n", "\n">> ELSE <<>>) \o
    (IF description # <<>> THEN <<"*", "*", "D", "e", "s", "c", "r", "i", "p", "t", "i", "o", "n", ":", "*", "*", " ">> \o description \o <<"\n", "\n">> ELSE <<>>) \o
    <<"*", "*", "G", "e", "n", "e", "r", "a", "t", "e", "d", ":", "*", "*", " ">> \o now \o <<"\n", "\n">> \o
    <<"-", "-", "-", "\n", "\n">>

\* the text convert_html_to_markdown_file(html_content, output_path, title,
\* url, description) writes
convert_html_to_markdown_file(html_content, title, u, description) ==
    Let(clean_and_format_html(html_content), LAMBDA cleaned_html :
    Let(extract_structured_content(cleaned_html), LAMBDA structured :
    Let(IF title = <<>> THEN structured.title ELSE title, LAMBDA title_ :
        create_markdown_header(
            IF title_ = <<>> THEN <<"U", "n", "t", "i", "t", "l", "e", "d">> ELSE title_,
            u,
            IF description = <<>> /\ structured.paragraphs # <<>>
            THEN Truncated(structured.paragraphs[1], 200)
            ELSE description) \o
        html_to_markdown(cleaned_html))))

(***************************************************************************)
(* crawl/temp_file.py: TempFileManager.                                    *)
(***************************************************************************)
\* what a call leaves behind: the returned path (<<>> is None) and the new state
TempOutcome(path, counter, files, dl) ==
    [ path |-> path, file_counter |-> counter, workspace |-> files, downloads |-> dl ]

\* os.path.basename of a path of the downloads directory
basename(path) == path[Len(path)]

\* create_temp_document naming the copy after the next counter value without
\* storing that value
create_temp_document_keeps_counter(source_path, original_filename, copy, remove_ok) ==
    IF source_path = <<>> \/ ~Exists(downloads, basename(source_path))
    THEN TempOutcome(<<>>, file_counter, workspace, downloads)
    ELSE LET n == file_counter + 1
             temp_file_path_ == <<"doc", n, original_filename>>
             content == ContentOf(downloads, basename(source_path))
         IN  CASE copy = "ok" ->
                    TempOutcome(temp_file_path_, file_counter,
                                WriteFile(workspace, temp_file_path_, content),
                                IF remove_ok
                                THEN RemoveFile(downloads, basename(source_path))
                                ELSE downloads)
               [] copy = "fails_leaving_file" ->
                    TempOutcome(<<>>, file_counter, WriteFile(workspace, temp_file_path_, <<>>),
                                downloads)
               [] OTHER ->
                    TempOutcome(<<>>, file_counter, workspace, downloads)

\* create_temp_document removing the source before it copies it: the copy
\* finds a source only when the removal failed
create_temp_document_removes_first(source_path, original_filename, copy, remove_ok) ==
    IF source_path = <<>> \/ ~Exists(downloads, basename(source_path))
    THEN TempOutcome(<<>>, file_counter, workspace, downloads)
    ELSE LET n == file_counter + 1
             temp_file_path_ == <<"doc", n, original_filename>>
             content == ContentOf(downloads, basename(source_path))
         IN  IF remove_ok
             THEN TempOutcome(<<>>, n, workspace, RemoveFile(downloads, basename(source_path)))
             ELSE IF copy = "ok"
                  THEN TempOutcome(temp_file_path_, n,
                                   WriteFile(workspace, temp_file_path_, content), downloads)
                  ELSE TempOutcome(<<>>, n, workspace, downloads)

\* create_temp_document(source_path, original_filename); copy is what
\* shutil.copy2 does, remove_ok whether os.remove succeeds
create_temp_document(source_path, original_filename, copy, remove_ok) ==
    IF source_path = <<>> \/ ~Exists(downloads, basename(source_path))
    THEN TempOutcome(<<>>, file_counter, workspace, downloads)
    ELSE LET n == file_counter + 1
             temp_file_path_ == <<"doc", n, original_filename>>
             content == ContentOf(downloads, basename(source_path))
         IN  CASE copy = "ok" ->
                    TempOutcome(temp_file_path_, n,
                                WriteFile(workspace, temp_file_path_, content),
                                IF remove_ok
                                THEN RemoveFile(downloads, basename(source_path))
                                ELSE downloads)
               [] copy = "fails_leaving_file" ->
                    TempOutcome(<<>>, n, WriteFile(workspace, temp_file_path_, <<>>),
                                downloads)
               [] OTHER ->
                    TempOutcome(<<>>, n, workspace, downloads)

\* the paths returned so far, after a call that returned path (<<>> is None)
Returned(paths, path) == IF path = <<>> THEN paths ELSE Append(paths, path)

\* What process_html_content and convert_html_to_markdown_file can do.
MarkdownOutcomes == {"ok", "process_fails", "write_fails", "write_fails_leaving_file"}

\* the title as create_temp_markdown puts it in the file name: of its first 50
\* characters the letters, digits, spaces, "-" and "_", right-stripped, with
\* "_" for every space
safe_title(title) ==
    LET kept == rstrip(SelectSeq(SubSeq(title, 1, IF Len(title) < 50 THEN Len(title) ELSE 50),
                                 LAMBDA c : c \in ALPHA \cup DIGIT \cup {" ", "-", "_"}))
    IN  [i \in DOMAIN kept |-> IF kept[i] = " " THEN "_" ELSE kept[i]]

\* temp_md_path: webpage_{counter}.md, or webpage_{counter}_{safe_title}.md
\* for a page with a title
MarkdownPath(n, title) ==
    IF title # <<>> /\ title # <<"U", "n", "t", "i", "t", "l", "e", "d">>
    THEN <<"webpage", n, safe_title(title)>>
    ELSE <<"webpage", n>>

\* the title create_temp_markdown takes from process_html_content
TitleOf(html_content) == process_html_content(html_content).structured_content.title

\* the text create_temp_markdown has convert_html_to_markdown_file write
MarkdownText(html_content, cleaned_data, u) ==
    convert_html_to_markdown_file(html_content, cleaned_data.structured_content.title, u,
                                  cleaned_data.description)

\* create_temp_markdown catching only the failure of process_html_content: a
\* failed write still returns the path
create_temp_markdown_returns_path(html_content, u, outcome) ==
    IF html_content = <<>>
    THEN TempOutcome(<<>>, file_counter, workspace, downloads)
    ELSE Let(process_html_content(html_content), LAMBDA cleaned_data :
         Let(MarkdownPath(file_counter + 1, cleaned_data.structured_content.title),
             LAMBDA temp_md_path :
             CASE outcome = "process_fails" ->
                    TempOutcome(<<>>, file_counter, workspace, downloads)
               [] outcome = "ok" ->
                    TempOutcome(temp_md_path, file_counter + 1,
                                WriteFile(workspace, temp_md_path,
                                          MarkdownText(html_content, cleaned_data, u)),
                                downloads)
               [] outcome = "write_fails_leaving_file" ->
                    TempOutcome(temp_md_path, file_counter + 1,
                                WriteFile(workspace, temp_md_path, <<>>), downloads)
               [] OTHER ->
                    TempOutcome(temp_md_path, file_counter + 1, workspace, downloads)))

\* create_temp_markdown(html_content, url)
create_temp_markdown(html_content, u, outcome) ==
    IF html_content = <<>>
    THEN TempOutcome(<<>>, file_counter, workspace, downloads)
    ELSE Let(process_html_content(html_content), LAMBDA cleaned_data :
         Let(MarkdownPath(file_counter + 1, cleaned_data.structured_content.title),
             LAMBDA temp_md_path :
             CASE outcome = "process_fails" ->
                    TempOutcome(<<>>, file_counter, workspace, downloads)
               [] outcome = "ok" ->
                    TempOutcome(temp_md_path, file_counter + 1,
                                WriteFile(workspace, temp_md_path,
                                          MarkdownText(html_content, cleaned_data, u)),
                                downloads)
               [] outcome = "write_fails_leaving_file" ->
                    TempOutcome(<<>>, file_counter + 1,
                                WriteFile(workspace, temp_md_path, <<>>), downloads)
               [] OTHER ->
                    TempOutcome(<<>>, file_counter + 1, workspace, downloads)))

(***************************************************************************)
(* crawl/orchestrator.py: process_single_url, step by step.                *)
(***************************************************************************)
\* temp_manager = TempFileManager()
OpenWorkspace ==
    /\ mode = "single"
    /\ pc = "start"
    /\ temp_dir' = "open"
    /\ file_counter' = 0
    /\ pc' = "classify"
    /\ UNCHANGED << inputVars, batchVars, url, exception, is_downloadable, probe_calls, httpVars,
                    workspace, artifact_paths, downloads, download_result, crawlVars,
                    scraping_result,
                    temp_file_path, result, stages, callVars >>

\* is_downloadable = await check_if_downloadable(url).  urlparse's ValueError is
\* caught nowhere and leaves process_single_url (or scrape_multiple_websites).
Classify ==
    /\ pc = "classify"
    /\ stages' = Append(stages, "classify")
    /\ \/ /\ urlparse(url).raises
          /\ exception' = "ValueError"
          /\ pc' = "raised"
          /\ UNCHANGED <<is_downloadable, probe_calls, head_response>>
       \/ /\ ~urlparse(url).raises
          /\ \E probe \in ProbeResponses :
                LET r == check_if_downloadable(url, probe)
                IN  /\ is_downloadable' = r.value
                    /\ probe_calls' = probe_calls + r.probes
                    /\ head_response' = (IF r.probes = 0 THEN NoResponse ELSE probe)
                    /\ pc' = IF r.value THEN "download" ELSE "scrape"
          /\ UNCHANGED exception
    /\ UNCHANGED << inputVars, batchVars, url, get_response, tempVars, downloads,
                    download_result,
                    crawlVars, scraping_result, temp_file_path, result, callVars >>

\* download_result = await process_file_download(url)
Download ==
    /\ pc = "download"
    /\ \E get \in GetResponses, use_s3 \in BOOLEAN, store \in StoreOutcomes :
          /\ get_response' = get
          /\ download_result' = process_file_download(url, get, use_s3, store)
          /\ downloads' = DownloadsAfter(downloads, url, get, use_s3, store)
    /\ transfer_calls' = transfer_calls + 1
    /\ stages' = Append(stages, "retrieve")
    /\ pc' = "after_download"
    /\ head_response' = NoResponse
    /\ UNCHANGED << inputVars, batchVars, url, exception, is_downloadable, probe_calls,
                    tempVars, crawlVars, scraping_result, temp_file_path, result,
                    render_calls, copy_calls, artifact_outcome >>

\* the result dictionary of the file download path
DownloadRecord(u, dr, temp_file) ==
    [ status |-> IF dr.success THEN "download_success" ELSE "download_failed",
      type |-> "file_download",
      url |-> u,
      temp_file |-> temp_file,
      result |-> dr ]

\* The file download path after the download: the temporary copy and the result.
FinishDownload ==
    /\ mode = "single"
    /\ pc = "after_download"
    /\ LET source_path == Get(download_result, "local_path")
       IN  IF /\ download_result.success
              /\ source_path # <<>>
              /\ Exists(downloads, basename(source_path))
           THEN \E copy \in CopyOutcomes, remove_ok \in BOOLEAN :
                  LET t == create_temp_document(source_path, basename(source_path),
                                                copy, remove_ok)
                  IN  /\ temp_file_path' = t.path
                      /\ file_counter' = t.file_counter
                      /\ workspace' = t.workspace
                      /\ artifact_paths' = Returned(artifact_paths, t.path)
                      /\ downloads' = t.downloads
                      /\ copy_calls' = copy_calls + 1
                      /\ artifact_outcome' = DocumentCall(source_path, basename(source_path),
                                                          copy, remove_ok)
                      /\ stages' = Append(stages, "transform")
           ELSE UNCHANGED << temp_file_path, file_counter, workspace, artifact_paths,
                             downloads,
                             copy_calls, artifact_outcome, stages >>
    /\ result' = DownloadRecord(url, download_result, temp_file_path')
    /\ pc' = "finalize"
    /\ UNCHANGED << inputVars, batchVars, url, exception, is_downloadable, probe_calls, httpVars,
                    temp_dir, download_result, crawlVars, scraping_result,
                    transfer_calls, render_calls >>

(***************************************************************************)
(* crawl/scraper.py: scrape_webpage and _crawl_steps, one await at a time. *)
(***************************************************************************)
\* async with AsyncWebCrawler(config=browser_config) as crawler: the browser
\* starts, or the start raises and scrape_webpage's except builds the result
OpenCrawler ==
    /\ pc = "scrape"
    /\ render_calls' = render_calls + 1
    /\ stages' = Append(stages, "retrieve")
    /\ \/ /\ crawler' = "open"
          /\ pc' = "crawl"
          /\ UNCHANGED scraping_result
       \/ /\ scraping_result' = ScrapingFailed(url, "BrowserError")
          /\ pc' = "after_scrape"
          /\ UNCHANGED crawler
    /\ head_response' = NoResponse
    /\ UNCHANGED << inputVars, batchVars, url, exception, is_downloadable, probe_calls,
                    get_response,
                    tempVars, downloads, download_result, step, final_html, final_url,
                    status_code, arun_log, temp_file_path, result, transfer_calls,
                    copy_calls, artifact_outcome >>

\* the error scrape_webpage reports for a step that did not succeed
StepError(r) == IF r.kind = "raises" THEN "TimeoutError" ELSE "Crawl step failed"

\* CrawlStep with every step run on the input URL
CrawlStep_on_input_url ==
    /\ pc = "crawl"
    /\ step < Len(steps)
    /\ arun_log' = Append(arun_log,
                          [url |-> url, config |-> make_config(steps[step + 1])])
    /\ \E r \in ArunResponses(url) :
          IF r.kind = "ok"
          THEN /\ final_html' = (IF r.html # <<>> THEN r.html ELSE final_html)
               /\ final_url' = r.url
               /\ status_code' = r.status_code
               /\ step' = step + 1
               /\ UNCHANGED <<crawler, scraping_result, pc>>
          ELSE /\ crawler' = "closed"
               /\ scraping_result' = ScrapingFailed(url, StepError(r))
               /\ pc' = "after_scrape"
               /\ UNCHANGED <<final_html, final_url, status_code, step>>
    /\ UNCHANGED << inputVars, batchVars, url, exception, is_downloadable, probe_calls, httpVars,
                    tempVars, downloads, download_result, temp_file_path, result,
                    stages, callVars >>

\* One turn of _crawl_steps' loop: crawler.arun on the URL of the previous step.
\* A failure leaves the async with block (which closes the crawler) and reaches
\* scrape_webpage's except.
CrawlStep ==
    /\ pc = "crawl"
    /\ step < Len(steps)
    /\ arun_log' = Append(arun_log,
                          [url |-> final_url, config |-> make_config(steps[step + 1])])
    /\ \E r \in ArunResponses(final_url) :
          IF r.kind = "ok"
          THEN /\ final_html' = (IF r.html # <<>> THEN r.html ELSE final_html)
               /\ final_url' = r.url
               /\ status_code' = r.status_code
               /\ step' = step + 1
               /\ UNCHANGED <<crawler, scraping_result, pc>>
          ELSE /\ crawler' = "closed"
               /\ scraping_result' = ScrapingFailed(url, StepError(r))
               /\ pc' = "after_scrape"
               /\ UNCHANGED <<final_html, final_url, status_code, step>>
    /\ UNCHANGED << inputVars, batchVars, url, exception, is_downloadable, probe_calls, httpVars,
                    tempVars, downloads, download_result, temp_file_path, result,
                    stages, callVars >>

\* _crawl_steps returns and the async with block is left: the crawler is closed
CloseCrawler ==
    /\ pc = "crawl"
    /\ step = Len(steps)
    /\ crawler' = "closed"
    /\ pc' = "wall"
    /\ UNCHANGED << inputVars, batchVars, url, exception, is_downloadable, probe_calls, httpVars,
                    tempVars, downloads, download_result, step, final_html, final_url,
                    status_code, arun_log, scraping_result, temp_file_path, result,
                    stages, callVars >>

\* WallCheck without the detector: the captured markup is always returned
WallCheck_without_detector ==
    /\ pc = "wall"
    /\ stages' = Append(stages, "wall_check")
    /\ scraping_result' = CrawlSucceeded(final_url, status_code, final_html)
    /\ pc' = "after_scrape"
    /\ UNCHANGED << inputVars, batchVars, url, exception, is_downloadable, probe_calls, httpVars,
                    tempVars, downloads, download_result, crawlVars, temp_file_path,
                    result, callVars >>

\* if check_for_login_screen(result.html): ... return result
WallCheck ==
    /\ pc = "wall"
    /\ stages' = Append(stages, "wall_check")
    /\ scraping_result' = IF check_for_login_screen(final_html)
                          THEN LoginRequired(url)
                          ELSE CrawlSucceeded(final_url, status_code, final_html)
    /\ pc' = "after_scrape"
    /\ UNCHANGED << inputVars, batchVars, url, exception, is_downloadable, probe_calls, httpVars,
                    tempVars, downloads, download_result, crawlVars, temp_file_path,
                    result, callVars >>

(***************************************************************************)
(* crawl/orchestrator.py: the webpage path after the scrape, and the end.  *)
(***************************************************************************)
\* the result dictionary of a scraped page
WebpageRecord(sr, temp_file) ==
    [ status |-> "success",
      type |-> "webpage",
      url |-> sr.url,
      status_code |-> sr.status_code,
      html_content |-> sr.html,
      html_length |-> Len(sr.html),
      temp_file |-> temp_file,
      scraping_result |-> sr ]

\* the result dictionary of a failed scrape
FailedRecord(u, sr) ==
    [ status |-> "failed",
      type |-> "webpage",
      url |-> u,
      error_type |-> sr.error_type,
      error |-> Or(sr.error, Or(sr.message, "Unknown error")),
      scraping_result |-> sr ]

FinishWebpage ==
    /\ mode = "single"
    /\ pc = "after_scrape"
    /\ IF scraping_result.success
       THEN \E outcome \in MarkdownOutcomes :
              \E t \in { create_temp_markdown(scraping_result.html, scraping_result.url,
                                                outcome) } :
                  /\ temp_file_path' = t.path
                  /\ file_counter' = t.file_counter
                  /\ workspace' = t.workspace
                  /\ artifact_paths' = Returned(artifact_paths, t.path)
                  /\ result' = WebpageRecord(scraping_result, t.path)
                  /\ stages' = Append(stages, "transform")
                  /\ artifact_outcome' = MarkdownCall(scraping_result.html, outcome)
       ELSE /\ result' = FailedRecord(url, scraping_result)
            /\ UNCHANGED <<temp_file_path, file_counter, workspace, artifact_paths, stages,
                           artifact_outcome>>
    /\ pc' = "finalize"
    /\ UNCHANGED << inputVars, batchVars, url, exception, is_downloadable, probe_calls, httpVars,
                    temp_dir, downloads, download_result, crawlVars, scraping_result,
                    transfer_calls, render_calls, copy_calls >>

\* print_processing_result(url, result), the summary, return result, temp_file_path
Finalize ==
    /\ mode = "single"
    /\ pc = "finalize"
    /\ stages' = Append(stages, "finalize")
    /\ pc' = "done"
    /\ UNCHANGED << inputVars, batchVars, url, exception, is_downloadable, probe_calls, httpVars,
                    tempVars, downloads, download_result, crawlVars, scraping_result,
                    temp_file_path, result, callVars >>

(***************************************************************************)
(* scraper.py: scrape_multiple_websites.  Its check_if_downloadable,       *)
(* process_file_download and scrape_webpage are copies of the crawl        *)
(* package's, so the loop body runs the actions above.                     *)
(***************************************************************************)
\* The loop body's locals are not read again once the record is stored: the
\* next turn of the loop assigns them before it reads them.
ForgetLocals ==
    /\ is_downloadable' = FALSE
    /\ head_response' = NoResponse
    /\ get_response' = NoResponse
    /\ download_result' = NoDownload
    /\ crawler' = "none"
    /\ step' = 0
    /\ final_html' = <<>>
    /\ final_url' = <<>>
    /\ status_code' = 0
    /\ arun_log' = <<>>
    /\ scraping_result' = NoScrape

\* scraped_results[url] = record
Store(dict, u, record) ==
    [ k \in (DOMAIN dict) \cup {u} |-> IF k = u THEN record ELSE dict[k] ]

\* for url in urls: the next URL, or return scraped_results
BatchLoop ==
    /\ mode = "batch"
    /\ pc = "loop"
    /\ IF idx < Len(urls)
       THEN /\ idx' = idx + 1
            /\ pc' = "classify"
            /\ url' = urls[idx + 1]
            /\ final_url' = urls[idx + 1]
            /\ is_downloadable' = FALSE
            /\ probe_calls' = 0
            /\ head_response' = NoResponse
            /\ get_response' = NoResponse
            /\ download_result' = NoDownload
            /\ crawler' = "none"
            /\ step' = 0
            /\ final_html' = <<>>
            /\ status_code' = 0
            /\ arun_log' = <<>>
            /\ scraping_result' = NoScrape
            /\ stages' = <<>>
            /\ transfer_calls' = 0
            /\ render_calls' = 0
            /\ copy_calls' = 0
            /\ artifact_outcome' = NoArtifactCall
       ELSE /\ pc' = "returned"
            /\ UNCHANGED << idx, url, is_downloadable, probe_calls, httpVars, download_result,
                            crawlVars, scraping_result, stages, callVars >>
    /\ UNCHANGED << inputVars, scraped_results, exception, tempVars, downloads,
                    temp_file_path, result >>

\* scraped_results[url] = {'status': ..., 'type': 'file_download', 'result': ...}
StoreDownload ==
    /\ mode = "batch"
    /\ pc = "after_download"
    /\ scraped_results' =
          Store(scraped_results, url,
                [ status |-> IF download_result.success
                             THEN "download_success" ELSE "download_failed",
                  type |-> "file_download",
                  result |-> download_result ])
    /\ stages' = Append(stages, "finalize")
    /\ pc' = "loop"
    /\ ForgetLocals
    /\ UNCHANGED << inputVars, idx, url, exception, probe_calls, tempVars, downloads,
                    temp_file_path, result, callVars >>

\* scraped_results[url] = {'status': 'success' ...} or {'status': 'failed' ...}
StoreWebpage ==
    /\ mode = "batch"
    /\ pc = "after_scrape"
    /\ scraped_results' =
          Store(scraped_results, url,
                IF scraping_result.success
                THEN [ status |-> "success",
                       type |-> "webpage",
                       url |-> scraping_result.url,
                       status_code |-> scraping_result.status_code,
                       html_content |-> scraping_result.html,
                       html_length |-> Len(scraping_result.html) ]
                ELSE [ status |-> "failed",
                       type |-> "webpage",
                       error_type |-> scraping_result.error_type,
                       error |-> Or(scraping_result.error,
                                    Or(scraping_result.message, "Unknown error")) ])
    /\ stages' = Append(stages, "finalize")
    /\ pc' = "loop"
    /\ ForgetLocals
    /\ UNCHANGED << inputVars, idx, url, exception, probe_calls, tempVars, downloads,
                    temp_file_path, result, callVars >>

Next ==
    \/ OpenWorkspace
    \/ Classify
    \/ Download
    \/ FinishDownload
    \/ OpenCrawler
    \/ CrawlStep
    \/ CloseCrawler
    \/ WallCheck
    \/ FinishWebpage
    \/ Finalize
    \/ BatchLoop
    \/ StoreDownload
    \/ StoreWebpage

Spec == Init /\ [][Next]_vars

(***************************************************************************)
(* The classifier on its own: check_if_downloadable on every URL made of   *)
(* at most MaxUrlFrags fragments, with every answer of the HEAD probe.     *)
(***************************************************************************)
\* "http://e.zip", "/a", ".pdf", ".GZ", "?q=", "#f", "http://["
UrlFragments ==
    { <<"h", "t", "t", "p", ":", "/", "/", "e", ".", "z", "i", "p">>,
      <<"/", "a">>,
      <<".", "p", "d", "f">>,
      <<".", "G", "Z">>,
      <<"?", "q", "=">>,
      <<"#", "f">>,
      <<"h", "t", "t", "p", ":", "/", "/", "[">> }

ClassifierUrls == Concats(UrlFragments, MaxUrlFrags)

InitClassify ==
    /\ scraper_config = config
    /\ tasks = <<>>
    /\ mode = "single"
    /\ urls = <<>>
    /\ idx = 0
    /\ scraped_results = EmptyDict
    /\ temp_dir = "open"
    /\ file_counter = 0
    /\ workspace = {}
    /\ artifact_paths = <<>>
    /\ downloads = {}
    /\ pc = "classify"
    /\ \E u \in ClassifierUrls : FreshRun(u)

NextClassify == Classify

SpecClassify == InitClassify /\ [][NextClassify]_vars

(***************************************************************************)
(* The wall detector on its own: scrape_webpage's check on every captured  *)
(* markup made of at most MaxMarkupFrags fragments.                        *)
(***************************************************************************)
\* "Password", "USERNAME", "login", "sign in", "log in", "Please ", " required", "Paywall"
MarkupFragments ==
    { <<"P", "a", "s", "s", "w", "o", "r", "d">>,
      <<"U", "S", "E", "R", "N", "A", "M", "E">>,
      <<"l", "o", "g", "i", "n">>,
      <<"s", "i", "g", "n", " ", "i", "n">>,
      <<"l", "o", "g", " ", "i", "n">>,
      <<"P", "l", "e", "a", "s", "e", " ">>,
      <<" ", "r", "e", "q", "u", "i", "r", "e", "d">>,
      <<"P", "a", "y", "w", "a", "l", "l">> }

Markups == Concats(MarkupFragments, MaxMarkupFrags)

\* the three crawler.arun calls of a scrape of UrlPage that was not redirected
ThreeSteps == [ i \in 1..Len(steps) |-> [url |-> UrlPage, config |-> make_config(steps[i])] ]

\* The values the caller gives to the scraper's min_login_indicators before a run.
Thresholds == {3, 4, 5}

InitWall ==
    /\ scraper_config \in { [config EXCEPT !.min_login_indicators = k] : k \in Thresholds }
    /\ tasks = <<>>
    /\ mode = "single"
    /\ urls = <<>>
    /\ idx = 0
    /\ scraped_results = EmptyDict
    /\ temp_dir = "open"
    /\ file_counter = 0
    /\ workspace = {}
    /\ artifact_paths = <<>>
    /\ downloads = {}
    /\ pc = "wall"
    /\ url = UrlPage
    /\ exception = "None"
    /\ is_downloadable = FALSE
    /\ probe_calls = 1
    /\ head_response = NoResponse
    /\ get_response = NoResponse
    /\ download_result = NoDownload
    /\ crawler = "closed"
    /\ step = Len(steps)
    /\ final_html \in Markups
    /\ final_url = UrlPage
    /\ status_code = 200
    /\ arun_log = ThreeSteps
    /\ scraping_result = NoScrape
    /\ temp_file_path = <<>>
    /\ result = NoResult
    /\ stages = <<"classify", "retrieve">>
    /\ transfer_calls = 0
    /\ render_calls = 1
    /\ copy_calls = 0
    /\ artifact_outcome = NoArtifactCall

NextWall == WallCheck

SpecWall == InitWall /\ [][NextWall]_vars

(***************************************************************************)
(* crawl/temp_file.py, crawl/orchestrator.py: one TempFileManager used by  *)
(* several URL pipelines.  create_temp_document, create_temp_markdown and  *)
(* the cleanup functions are synchronous: they hold no await, so pipelines *)
(* that interleave at their awaits run each call as a whole, in any order. *)
(***************************************************************************)
\* the downloaded files a pipeline may hand to create_temp_document
SourceFiles ==
    { [name |-> Filename(UrlPdf), content |-> BytesOf(UrlPdf)],
      [name |-> Filename(UrlPage), content |-> BytesOf(UrlPage)] }

\* the source_path arguments: None, or a path of the downloads directory
SourcePaths == { <<>> } \cup { <<"downloads", f.name>> : f \in SourceFiles }

\* what shutil.rmtree can do: remove the tree, raise before it removed
\* anything, or raise after it removed some of the files
RmtreeOutcomes == {"ok", "fails", "fails_midway"}

\* the variables the workspace calls leave alone
pipelineVars ==
    << inputVars, batchVars, pc, url, exception, is_downloadable, probe_calls, httpVars,
       download_result, crawlVars, scraping_result, result, stages, transfer_calls,
       render_calls, copy_calls >>

InitTemp ==
    /\ scraper_config = config
    /\ tasks = <<>>
    /\ mode = "single"
    /\ urls = <<>>
    /\ idx = 0
    /\ scraped_results = EmptyDict
    /\ temp_dir = "open"
    /\ file_counter = 0
    /\ workspace = {}
    /\ artifact_paths = <<>>
    /\ downloads \in SUBSET SourceFiles
    /\ pc = "workspace"
    /\ FreshRun(<<>>)

\* temp_manager.create_temp_document(source_path, original_filename) by any
\* pipeline; into a removed directory the copy can only fail
TempDocument ==
    /\ pc = "workspace"
    /\ file_counter < MaxTempCalls
    /\ \E source_path \in SourcePaths, f \in SourceFiles, remove_ok \in BOOLEAN,
          copy \in (IF temp_dir = "open" THEN CopyOutcomes ELSE {"fails"}) :
          LET t == create_temp_document(source_path, f.name, copy, remove_ok)
          IN  /\ temp_file_path' = t.path
              /\ file_counter' = t.file_counter
              /\ workspace' = t.workspace
              /\ downloads' = t.downloads
              /\ artifact_paths' = Returned(artifact_paths, t.path)
              /\ artifact_outcome' =
                    IF t.file_counter = file_counter
                    THEN DocumentCall(source_path, f.name, "not_run", remove_ok)
                    ELSE DocumentCall(source_path, f.name, copy, remove_ok)
    /\ UNCHANGED << pipelineVars, temp_dir >>

\* temp_manager.create_temp_markdown(html_content, url) by any pipeline;
\* convert_html_to_markdown_file makes the directory again if it was removed
TempMarkdown ==
    /\ pc = "workspace"
    /\ file_counter < MaxTempCalls
    /\ \E html_content \in {<<>>, PagePlain}, outcome \in MarkdownOutcomes :
          \E t \in { create_temp_markdown(html_content, UrlPage, outcome) } :
              /\ temp_file_path' = t.path
              /\ file_counter' = t.file_counter
              /\ workspace' = t.workspace
              /\ artifact_paths' = Returned(artifact_paths, t.path)
              /\ artifact_outcome' = MarkdownCall(html_content, outcome)
              /\ temp_dir' = IF t.workspace # workspace THEN "open" ELSE temp_dir
    /\ UNCHANGED << pipelineVars, downloads >>

\* shutil.rmtree(temp_dir) inside try/except Exception: the tree is removed, or
\* the error is printed and what was not removed yet stays
Rmtree(name, outcome) ==
    /\ artifact_outcome' = CleanupCall(name, outcome)
    /\ CASE outcome = "ok" ->
              /\ temp_dir' = "removed"
              /\ workspace' = {}
         [] outcome = "fails_midway" ->
              /\ temp_dir' = temp_dir
              /\ \E kept \in SUBSET workspace :
                    /\ kept # workspace
                    /\ workspace' = kept
         [] OTHER ->
              UNCHANGED << temp_dir, workspace >>

\* a cleanup function that returns before it reaches shutil.rmtree
NoRmtree(name) ==
    /\ artifact_outcome' = CleanupCall(name, "not_run")
    /\ UNCHANGED << temp_dir, workspace >>

\* temp_manager.cleanup()
Cleanup ==
    /\ pc = "workspace"
    /\ IF temp_dir = "open"
       THEN \E outcome \in RmtreeOutcomes : Rmtree("cleanup", outcome)
       ELSE NoRmtree("cleanup")
    /\ UNCHANGED << pipelineVars, file_counter, artifact_paths, downloads, temp_file_path >>

\* cleanup_temp_directory(temp_dir), on None or on the manager's directory
CleanupTempDirectory ==
    /\ pc = "workspace"
    /\ \E arg \in {"None", "temp_dir"} :
          IF arg = "temp_dir" /\ temp_dir = "open"
          THEN \E outcome \in RmtreeOutcomes : Rmtree("cleanup_temp_directory", outcome)
          ELSE NoRmtree("cleanup_temp_directory")
    /\ UNCHANGED << pipelineVars, file_counter, artifact_paths, downloads, temp_file_path >>

\* cleanup_temp_file removing the file it was given (os.remove) instead of the
\* directory the file is in
CleanupTempFile_removes_one_file ==
    /\ pc = "workspace"
    /\ \E arg \in { <<>> } \cup Range(artifact_paths) :
          IF arg # <<>> /\ Exists(workspace, arg)
          THEN /\ artifact_outcome' = CleanupCall("cleanup_temp_file", "ok")
               /\ workspace' = RemoveFile(workspace, arg)
               /\ temp_dir' = temp_dir
          ELSE NoRmtree("cleanup_temp_file")
    /\ UNCHANGED << pipelineVars, file_counter, artifact_paths, downloads, temp_file_path >>

\* cleanup_temp_file(temp_file_path), on None or on a path a call returned:
\* the directory of an existing file is removed as a whole
CleanupTempFile ==
    /\ pc = "workspace"
    /\ \E arg \in { <<>> } \cup Range(artifact_paths) :
          IF arg # <<>> /\ Exists(workspace, arg)
          THEN \E outcome \in RmtreeOutcomes : Rmtree("cleanup_temp_file", outcome)
          ELSE NoRmtree("cleanup_temp_file")
    /\ UNCHANGED << pipelineVars, file_counter, artifact_paths, downloads, temp_file_path >>

NextTemp ==
    \/ TempDocument
    \/ TempMarkdown
    \/ Cleanup
    \/ CleanupTempDirectory
    \/ CleanupTempFile

SpecTemp == InitTemp /\ [][NextTemp]_vars

(***************************************************************************)
(* crawl/clean: clean_html, html_to_markdown and process_html_content run  *)
(* on a markup made of at most MaxHtmlFrags fragments, or on one of the    *)
(* markups the specification names.                                        *)
(***************************************************************************)
\* "<p>", "</p>", "<img/>", "<br/>", "x", " ", "<!--c-->", "<script>"
HtmlFragments ==
    { <<"<", "p", ">">>, <<"<", "/", "p", ">">>, <<"<", "i", "m", "g", "/", ">">>, <<"<", "b", "r", "/", ">">>, <<"x">>, <<" ">>, <<"<", "!", "-", "-", "c", "-", "-", ">">>, <<"<", "s", "c", "r", "i", "p", "t", ">">> }

\* "<h1>Title</h1><p>Body.</p>"
PageHeading == <<"<", "h", "1", ">", "T", "i", "t", "l", "e", "<", "/", "h", "1", ">", "<", "p", ">", "B", "o", "d", "y", ".", "<", "/", "p", ">">>

\* a text one character longer than the 200 of text[:200]
LongText == [i \in 1..201 |-> "x"]

\* "<p>xx...x</p>" with the long text
PageLong == <<"<", "p", ">">> \o LongText \o <<"<", "/", "p", ">">>

\* "<h2>a</h2><h1>b</h1>": a heading of level 2 before one of level 1
PageHeadingsReversed == <<"<", "h", "2", ">", "a", "<", "/", "h", "2", ">", "<", "h", "1", ">", "b", "<", "/", "h", "1", ">">>

\* "<ul><li>a<ul><li>b</li></ul></li></ul>": a list inside an item of a list
PageNestedList == <<"<", "u", "l", ">", "<", "l", "i", ">", "a", "<", "u", "l", ">", "<", "l", "i", ">", "b", "<", "/", "l", "i", ">", "<", "/", "u", "l", ">", "<", "/", "l", "i", ">", "<", "/", "u", "l", ">">>

\* "<p>a<b>c</b></p>": a bold span inside a paragraph
PageBoldInParagraph == <<"<", "p", ">", "a", "<", "b", ">", "c", "<", "/", "b", ">", "<", "/", "p", ">">>

Documents ==
    Concats(HtmlFragments, MaxHtmlFrags) \cup
    {PageHeading, PageTitled, PageLong, PageHeadingsReversed, PageNestedList, PageBoldInParagraph}

\* what a function of crawl/clean was given and what it returned
Returns(name, html_content, value) ==
    [call |-> name, html_content |-> html_content, value |-> value]

InitMarkup ==
    /\ scraper_config = config
    /\ tasks = <<>>
    /\ mode = "single"
    /\ urls = <<>>
    /\ idx = 0
    /\ scraped_results = EmptyDict
    /\ temp_dir = "None"
    /\ file_counter = 0
    /\ workspace = {}
    /\ artifact_paths = <<>>
    /\ downloads = {}
    /\ pc = "markup"
    /\ url = UrlPage
    /\ exception = "None"
    /\ is_downloadable = FALSE
    /\ probe_calls = 0
    /\ head_response = NoResponse
    /\ get_response = NoResponse
    /\ download_result = NoDownload
    /\ crawler = "none"
    /\ step = 0
    /\ final_html \in Documents
    /\ final_url = UrlPage
    /\ status_code = 0
    /\ arun_log = <<>>
    /\ scraping_result = NoScrape
    /\ temp_file_path = <<>>
    /\ result = NoResult
    /\ stages = <<>>
    /\ transfer_calls = 0
    /\ render_calls = 0
    /\ copy_calls = 0
    /\ artifact_outcome = NoArtifactCall

\* the variables the functions of crawl/clean leave alone
markupVars ==
    << inputVars, batchVars, url, exception, is_downloadable, probe_calls, httpVars, tempVars,
       downloads, download_result, crawlVars, scraping_result, temp_file_path, stages,
       callVars >>

\* clean_html(html_content) on the markup
CleanHtml ==
    /\ pc = "markup"
    /\ result' = Returns("clean_html", final_html, clean_html(final_html))
    /\ pc' = "cleaned"
    /\ UNCHANGED markupVars

\* clean_html on what clean_html returned
CleanHtmlAgain ==
    /\ pc = "cleaned"
    /\ result' = Returns("clean_html", result.value, clean_html(result.value))
    /\ pc' = "cleaned_again"
    /\ UNCHANGED markupVars

\* html_to_markdown(html_content) on the markup
HtmlToMarkdown ==
    /\ pc = "markup"
    /\ result' = Returns("html_to_markdown", final_html, html_to_markdown(final_html))
    /\ pc' = "converted"
    /\ UNCHANGED markupVars

\* process_html_content(html_content) on the markup
ProcessHtmlContent ==
    /\ pc = "markup"
    /\ result' = Returns("process_html_content", final_html, process_html_content(final_html))
    /\ pc' = "processed"
    /\ UNCHANGED markupVars

\* extract_structured_content(html) on the markup
ExtractStructuredContent ==
    /\ pc = "markup"
    /\ result' = Returns("extract_structured_content", final_html,
                         extract_structured_content(final_html))
    /\ pc' = "structured"
    /\ UNCHANGED markupVars

NextMarkup ==
    \/ CleanHtml
    \/ CleanHtmlAgain
    \/ HtmlToMarkdown
    \/ ProcessHtmlContent
    \/ ExtractStructuredContent

SpecMarkup == InitMarkup /\ [][NextMarkup]_vars

(***************************************************************************)
(* Properties.                                                             *)
(***************************************************************************)
\* check_if_downloadable has just returned for the current URL
JustClassified == pc \in {"download", "scrape"}

\* the path component of the URL, lowercased, ends with a recognized extension
PathHasExtension(u) ==
    /\ ~urlparse(u).raises
    /\ \E ext \in DOWNLOADABLE_EXTENSIONS : endswith(lower(urlparse(u).path), ext)

\* C1: for every URL whose path component (lowercased, query string and
\* fragment excluded) ends with a recognized extension, check_if_downloadable
\* returns True and issues no HEAD probe.
C1_ExtensionShortCircuits ==
    (JustClassified /\ PathHasExtension(url))
        => (is_downloadable /\ probe_calls = 0 /\ pc = "download")

\* C1 witness: a URL with an upper-case extension followed by a query string
\* was classified Download without a probe.
C1_Witness ==
    /\ pc = "download"
    /\ PathHasExtension(url)
    /\ url # lower(url)
    /\ contains(url, <<"?">>)
    /\ is_downloadable
    /\ probe_calls = 0

\* the lowercased Content-Type header holds one of the fixed substrings
HeaderMatches(header) ==
    \E ct \in Range(DOWNLOADABLE_CONTENT_TYPES) : contains(lower(header), ct)

\* C9: for a URL whose extension check does not match, check_if_downloadable
\* returns Download iff the HEAD probe succeeds and its lowercased Content-Type
\* header holds one of the fixed substrings; a failed probe raises nothing and
\* gives Render.
C9_ProbeDecides ==
    (JustClassified /\ ~PathHasExtension(url))
        => /\ probe_calls = 1
           /\ exception = "None"
           /\ is_downloadable <=> (head_response.ok /\ HeaderMatches(head_response.header))
           /\ ~head_response.ok => (~is_downloadable /\ pc = "scrape")
           /\ pc = (IF is_downloadable THEN "download" ELSE "scrape")

\* C9 witness: the probe of a URL without extension failed and the URL was
\* classified Render.
C9_Witness ==
    /\ pc = "scrape"
    /\ ~PathHasExtension(url)
    /\ probe_calls = 1
    /\ ~head_response.ok
    /\ ~is_downloadable
    /\ exception = "None"

\* scrape_webpage has just run the wall detector on final_html
JustWallChecked == pc = "after_scrape" /\ "wall_check" \in Range(stages)

\* the lowercased markup holds a strong phrase
HasStrongPhrase(markup) ==
    \E phrase \in Range(STRONG_LOGIN_INDICATORS) : contains(lower(markup), phrase)

\* the weak indicators the lowercased markup holds, each counted once
WeakIndicatorsIn(markup) ==
    { w \in Range(LOGIN_FORM_INDICATORS) : contains(lower(markup), w) }

\* the default threshold of the wall detector
DefaultThreshold == 4

\* C7: a markup whose lowercased text holds a strong phrase is reported as a
\* login wall, whatever the number of weak indicators in it.
C7_StrongPhraseIsWall ==
    (JustWallChecked /\ HasStrongPhrase(final_html))
        => scraping_result.error_type = "login_required"

\* C7 witness: a markup with a strong phrase and no weak indicator at all was
\* reported as a login wall.
C7_Witness ==
    /\ JustWallChecked
    /\ HasStrongPhrase(final_html)
    /\ WeakIndicatorsIn(final_html) = {}
    /\ scraping_result.error_type = "login_required"

\* C8: a markup with no strong phrase is reported as a login wall iff the
\* number of distinct weak indicators in it is at least the threshold, 4.
C8_WeakThreshold ==
    (JustWallChecked /\ ~HasStrongPhrase(final_html))
        => ( scraping_result.error_type = "login_required"
               <=> Cardinality(WeakIndicatorsIn(final_html)) >= DefaultThreshold )

\* C8 witness: a markup in mixed case with no strong phrase and exactly four
\* distinct weak indicators was reported as a login wall.
C8_Witness ==
    /\ JustWallChecked
    /\ ~HasStrongPhrase(final_html)
    /\ Cardinality(WeakIndicatorsIn(final_html)) = DefaultThreshold
    /\ final_html # lower(final_html)
    /\ scraping_result.error_type = "login_required"

\* the threshold - 1 side of C8: three distinct weak indicators, no wall
C8_BelowThresholdReached ==
    /\ JustWallChecked
    /\ ~HasStrongPhrase(final_html)
    /\ Cardinality(WeakIndicatorsIn(final_html)) = DefaultThreshold - 1
    /\ scraping_result.success

\* the four outcomes of a result record
Outcomes == {"success", "download_success", "failed", "download_failed"}

\* process_single_url has built its result record
HasResult == mode = "single" /\ pc \in {"finalize", "done"}

\* C2 (as the spec states it): for every URL and every combination of
\* collaborator failures process_single_url returns a result record, and no
\* exception escapes the processing of the URL.
C2_NoExceptionEscapes ==
    mode = "single"
        => /\ exception = "None"
           /\ pc # "raised"
           /\ pc = "done" => result.status \in Outcomes

\* the position of a stage in the order of the pipeline
StageRank(s) ==
    CASE s = "classify" -> 1
      [] s = "retrieve" -> 2
      [] s = "wall_check" -> 3
      [] s = "transform" -> 4
      [] s = "finalize" -> 5

\* the stages a run has passed are in the pipeline's order, none of them twice,
\* and the wall check belongs to the page path
StagesForward ==
    /\ \A i, j \in DOMAIN stages : i < j => StageRank(stages[i]) < StageRank(stages[j])
    /\ Len(stages) >= 1 => stages[1] = "classify"
    /\ Len(stages) >= 2 => stages[2] = "retrieve"
    /\ "wall_check" \in Range(stages) => (render_calls = 1 /\ transfer_calls = 0)
    /\ "finalize" \in Range(stages) => Len(stages) >= 3

\* C3 (as the spec states it): a run of process_single_url passes the stages
\* classify, retrieve, wall check (page path only), transform, finalize in
\* that order, enters none of them twice, and ends with exactly one of the
\* four outcomes.
C3_StagesForwardToOutcome ==
    /\ StagesForward
    /\ (mode = "single" /\ pc \in {"done", "raised"})
          => (result.status \in Outcomes /\ "finalize" \in Range(stages))

\* the three remediation steps of a login wall
LoginRemediation ==
    << "Visit the page manually in your browser",
       "Log in if required",
       "Copy and paste the content you need" >>

\* C4: on the page path, whenever the wall detector returns true for the
\* captured markup, the outcome is failed with error kind login_required, the
\* result carries the three-step remediation list, the returned html is empty,
\* the captured markup is written to no file, and no artifact is created.
C4_WallDiscardsMarkup ==
    /\ (pc = "after_scrape" /\ "wall_check" \in Range(stages)
            /\ check_for_login_screen(final_html))
          => /\ ~scraping_result.success
             /\ scraping_result.error_type = "login_required"
             /\ scraping_result.instructions = LoginRemediation
             /\ scraping_result.html = <<>>
    /\ (HasResult /\ "wall_check" \in Range(stages)
            /\ check_for_login_screen(final_html))
          => /\ result.status = "failed"
             /\ result.type = "webpage"
             /\ result.error_type = "login_required"
             /\ result.scraping_result.instructions = LoginRemediation
             /\ result.scraping_result.html = <<>>
             /\ "html_content" \notin DOMAIN result
             /\ "temp_file" \notin DOMAIN result
             /\ temp_file_path = <<>>
             /\ "transform" \notin Range(stages)
             /\ \A f \in workspace \cup downloads : f.content # final_html
             /\ workspace = {}
    /\ \A u \in DOMAIN scraped_results :
          (scraped_results[u].status = "failed"
              /\ scraped_results[u].error_type = "login_required")
            => "html_content" \notin DOMAIN scraped_results[u]

\* C4 witness: process_single_url returned for a page whose captured markup
\* is a login wall.
C4_Witness ==
    /\ mode = "single"
    /\ pc = "done"
    /\ "wall_check" \in Range(stages)
    /\ final_html # <<>>
    /\ check_for_login_screen(final_html)
    /\ result.status = "failed"
    /\ result.error_type = "login_required"
    /\ workspace = {}

\* C5: the rendering steps navigate, scroll to the bottom, capture run in that
\* order with the same session identifier; when a step fails no later step
\* runs, and the outcome is failed with error kind scraping_failed, four
\* possible causes and two remediation steps.
C5_StepsInOrder ==
    /\ Len(arun_log) <= 3
    /\ \A i \in DOMAIN arun_log :
          /\ arun_log[i].config.session_id = arun_log[1].config.session_id
          /\ ("js_code" \in DOMAIN arun_log[i].config) <=> (i = 2)
    /\ pc = "crawl" => Len(arun_log) = step
    /\ pc = "wall" => Len(arun_log) = 3
    /\ scraping_result.error_type = "scraping_failed"
          => /\ ~scraping_result.success
             /\ step < 3
             /\ Len(arun_log) = (IF crawler = "none" THEN 0 ELSE step + 1)
             /\ Len(scraping_result.possible_causes) = 4
             /\ Len(scraping_result.instructions) = 2
             /\ "wall_check" \notin Range(stages)
             /\ HasResult => /\ result.status = "failed"
                             /\ result.error_type = "scraping_failed"
                             /\ result.scraping_result = scraping_result
                             /\ temp_file_path = <<>>

\* C5 witness: the scroll step failed after the navigation, the capture did
\* not run, and process_single_url returned scraping_failed.
C5_Witness ==
    /\ mode = "single"
    /\ pc = "done"
    /\ step = 1
    /\ Len(arun_log) = 2
    /\ "js_code" \in DOMAIN arun_log[2].config
    /\ result.status = "failed"
    /\ result.error_type = "scraping_failed"

\* the transfer met a transport error or a response status outside 200..299
BadTransfer(get) ==
    \/ get.kind = "transport_error"
    \/ get.kind = "response" /\ (get.status < 200 \/ get.status > 299)

\* C6: on the download path a transport error or a non-2xx response status
\* gives the outcome download_failed with the error in the result; no binary
\* is copied and no artifact path is returned.
C6_FailedDownloadSkipsRest ==
    /\ (pc = "after_download" /\ BadTransfer(get_response))
          => /\ ~download_result.success
             /\ Get(download_result, "error") # <<>>
             /\ "local_path" \notin DOMAIN download_result
             /\ mode = "single" => downloads = {}
    /\ (HasResult /\ transfer_calls = 1 /\ BadTransfer(get_response))
          => /\ result.status = "download_failed"
             /\ result.type = "file_download"
             /\ Get(result.result, "error") # <<>>
             /\ result.temp_file = <<>>
             /\ temp_file_path = <<>>
             /\ copy_calls = 0
             /\ "transform" \notin Range(stages)
             /\ workspace = {}
    /\ \A u \in DOMAIN scraped_results :
          scraped_results[u].status = "download_failed"
            => Get(scraped_results[u].result, "error") # <<>>

\* C6 witness: the server answered 404 and process_single_url returned
\* download_failed without a copy.
C6_Witness ==
    /\ mode = "single"
    /\ pc = "done"
    /\ get_response.kind = "response"
    /\ get_response.status = 404
    /\ result.status = "download_failed"
    /\ result.result.error = <<"HTTP", 404>>
    /\ copy_calls = 0

\* status and type of a result record go together
WellFormed(record) ==
    /\ record.status \in Outcomes
    /\ record.type \in {"webpage", "file_download"}
    /\ record.status \in {"success", "failed"} <=> record.type = "webpage"
    /\ record.status \in {"download_success", "download_failed"}
          <=> record.type = "file_download"

\* every result record of process_single_url and scrape_multiple_websites is
\* well formed, and was retrieved by the collaborator of its type
RecordsWellFormed ==
    /\ HasResult
          => /\ WellFormed(result)
             /\ render_calls = (IF result.type = "webpage" THEN 1 ELSE 0)
             /\ transfer_calls = (IF result.type = "file_download" THEN 1 ELSE 0)
    /\ \A u \in DOMAIN scraped_results : WellFormed(scraped_results[u])
    /\ (mode = "batch" /\ pc = "loop" /\ idx > 0)
          => /\ url \in DOMAIN scraped_results
             /\ render_calls = (IF scraped_results[url].type = "webpage" THEN 1 ELSE 0)
             /\ transfer_calls = (IF scraped_results[url].type = "file_download" THEN 1 ELSE 0)
    /\ transfer_calls + render_calls <= 1

\* the processing of the current URL is over
UrlEnded ==
    \/ pc \in {"done", "raised"}
    \/ mode = "batch" /\ pc = "loop" /\ idx > 0

\* C10 (as the spec states it): every result record has one of the four
\* statuses and one of the two types, webpage with success or failed and
\* file_download with download_success or download_failed, and exactly one of
\* the renderer and the binary transfer is invoked for each URL.
C10_OneRetrievalPerUrl ==
    /\ RecordsWellFormed
    /\ UrlEnded => transfer_calls + render_calls = 1

\* scrape_multiple_websites is over: it returned or an exception left it
BatchEnded == mode = "batch" /\ pc \in {"returned", "raised"}

\* the record of the URL the batch has just stored
JustStored == mode = "batch" /\ pc = "loop" /\ idx > 0

\* storing the record of one URL leaves the records of the other URLs alone
BatchIsolation ==
    [][ \A u \in DOMAIN scraped_results :
            u # url' => ( /\ u \in DOMAIN scraped_results'
                          /\ scraped_results'[u] = scraped_results[u] ) ]_vars

\* a URL whose render did not get to the wall check is stored as
\* failed/scraping_failed
FailedRenderStored ==
    (JustStored /\ render_calls = 1 /\ "wall_check" \notin Range(stages))
        => /\ scraped_results[url].status = "failed"
           /\ scraped_results[url].error_type = "scraping_failed"

\* C11 (as the spec states it): for any list of URLs scrape_multiple_websites
\* returns a mapping with an entry for every distinct input URL, and a URL
\* whose navigation fails or times out is reported failed/scraping_failed.
C11_BatchMapsEveryUrl ==
    /\ FailedRenderStored
    /\ BatchEnded
          => /\ pc = "returned"
             /\ exception = "None"
             /\ DOMAIN scraped_results = Range(urls)

\* the create_temp_document call of this URL was made and its copy succeeded
CopySucceeded ==
    /\ artifact_outcome.call = "create_temp_document"
    /\ artifact_outcome.outcome = "ok"

\* the create_temp_document call of this URL was made and its copy failed
CopyFailed ==
    /\ artifact_outcome.call = "create_temp_document"
    /\ artifact_outcome.outcome # "ok"

\* C12 (as the spec states it): for a URL classified Download whose binary
\* transfer succeeds, process_single_url runs the copy into the workspace and,
\* unless the copy itself fails, the result is download_success with a
\* non-null artifact path to a copied binary inside the workspace.
C12_TransferredBinaryIsCopied ==
    (HasResult /\ transfer_calls = 1 /\ download_result.success)
        => /\ copy_calls = 1
           /\ ~CopyFailed
                => /\ result.status = "download_success"
                   /\ result.temp_file # <<>>
                   /\ temp_file_path = result.temp_file
                   /\ Exists(workspace, result.temp_file)
                   /\ ContentOf(workspace, result.temp_file) = BytesOf(url)

\* the local side of C12: a binary stored locally is copied into the workspace
LocalBinaryIsCopied ==
    (HasResult /\ transfer_calls = 1 /\ download_result.success
        /\ "local_path" \in DOMAIN download_result)
        => /\ copy_calls = 1
           /\ result.status = "download_success"
           /\ CopySucceeded
                => /\ result.temp_file # <<>>
                   /\ Exists(workspace, result.temp_file)
                   /\ ContentOf(workspace, result.temp_file) = BytesOf(url)

\* a create_temp_* call of this URL was made and the write or the copy failed
ArtifactFailed ==
    /\ artifact_outcome.call # "none"
    /\ artifact_outcome.outcome \notin {"ok", "not_run"}

\* C13: when writing the Markdown artifact or copying the binary fails after a
\* successful retrieval, the result keeps its outcome success or
\* download_success with no artifact path, no exception is raised, and the
\* workspace stays open.
C13_ArtifactFailureDegrades ==
    (HasResult /\ ArtifactFailed)
        => /\ result.status \in {"success", "download_success"}
           /\ result.status = "success" <=> artifact_outcome.call = "create_temp_markdown"
           /\ result.temp_file = <<>>
           /\ temp_file_path = <<>>
           /\ exception = "None"
           /\ temp_dir = "open"
           /\ result.status = "success" => result.html_content = scraping_result.html
           /\ result.status = "download_success" => result.result = download_result

\* C13 witness: the page was rendered, the write of its Markdown file failed,
\* and process_single_url returned success without an artifact path.
C13_Witness ==
    /\ mode = "single"
    /\ pc = "done"
    /\ artifact_outcome.call = "create_temp_markdown"
    /\ artifact_outcome.outcome = "write_fails"
    /\ result.status = "success"
    /\ result.temp_file = <<>>
    /\ exception = "None"

\* the copy side of C13: the copy of a downloaded binary failed and
\* process_single_url returned download_success without an artifact path
CopyFailureReached ==
    /\ mode = "single"
    /\ pc = "done"
    /\ CopyFailed
    /\ result.status = "download_success"
    /\ result.temp_file = <<>>

\* the paths the create_temp_* calls of one workspace returned are pairwise distinct
PathsDistinct ==
    \A i, j \in DOMAIN artifact_paths : i # j => artifact_paths[i] # artifact_paths[j]

\* each returned path carries a counter value above the ones returned before
\* it and not above the counter
CountersAscend ==
    /\ \A i, j \in DOMAIN artifact_paths : i < j => artifact_paths[i][2] < artifact_paths[j][2]
    /\ \A i \in DOMAIN artifact_paths : artifact_paths[i][2] \in 1..file_counter

\* C14: in one workspace, whatever the order in which the pipelines' calls of
\* create_temp_markdown and create_temp_document run, the counter never
\* decreases, no two calls are given the same counter value, and the paths
\* the calls returned are pairwise distinct
C14_DistinctArtifactPaths ==
    /\ [](PathsDistinct /\ CountersAscend)
    /\ [][file_counter' >= file_counter]_vars

\* two calls of different kinds have both returned a path in the same workspace
C14_Witness ==
    /\ pc = "workspace"
    /\ Len(artifact_paths) = 2
    /\ artifact_paths[1][1] # artifact_paths[2][1]

\* the functions that close a workspace
Closers == {"cleanup", "cleanup_temp_directory", "cleanup_temp_file"}

\* the last call was a closing function that reached shutil.rmtree
JustClosed == artifact_outcome.call \in Closers /\ artifact_outcome.outcome # "not_run"

\* the names of the files of a directory
Names(dir) == { f.name : f \in dir }

\* this step removes a file from the workspace
RemovesArtifact == Names(workspace) \ Names(workspace') # {}

ClosingFailureReached ==
    /\ JustClosed
    /\ artifact_outcome.outcome = "fails"
    /\ temp_dir = "open"
    /\ workspace # {}

\* this step is a create_temp_document call that found its source and took a
\* counter value
CopiesDocument ==
    /\ artifact_outcome'.call = "create_temp_document"
    /\ artifact_outcome'.outcome # "not_run"
    /\ file_counter' = file_counter + 1

\* C16: a create_temp_document call whose copy succeeds returns the path
\* doc_{counter}_{original_filename} of a file of the workspace holding the
\* bytes the source held; the source is gone only when the removal after the
\* copy succeeded, and stays, with the path still returned, when it failed; a
\* call whose copy fails returns None and leaves the source as it was
C16_DocumentCopiedThenSourceRemoved ==
    [][CopiesDocument =>
         LET call == artifact_outcome'
             source == basename(call.source_path)
         IN  IF call.outcome = "ok"
             THEN /\ temp_file_path' = <<"doc", file_counter', call.original_filename>>
                  /\ Exists(workspace', temp_file_path')
                  /\ ContentOf(workspace', temp_file_path') = ContentOf(downloads, source)
                  /\ workspace \subseteq workspace'
                  /\ downloads' = IF call.remove_ok
                                  THEN RemoveFile(downloads, source)
                                  ELSE downloads
             ELSE /\ temp_file_path' = <<>>
                  /\ downloads' = downloads
      ]_vars

\* a copy succeeded, the removal of the source failed, and the path of the
\* copy was returned while the source is still in the downloads directory
C16_Witness ==
    /\ artifact_outcome.call = "create_temp_document"
    /\ artifact_outcome.outcome = "ok"
    /\ ~artifact_outcome.remove_ok
    /\ pc = "workspace"
    /\ temp_file_path # <<>>
    /\ Exists(workspace, temp_file_path)
    /\ Exists(downloads, basename(artifact_outcome.source_path))

\* a copy failed: None was returned and the source is still there
CopyFailureKeepsSource ==
    /\ artifact_outcome.call = "create_temp_document"
    /\ artifact_outcome.outcome = "fails"
    /\ pc = "workspace"
    /\ temp_file_path = <<>>
    /\ Exists(downloads, basename(artifact_outcome.source_path))

\* process_file_download has returned for the current URL
HasDownloadResult == download_result # NoDownload

\* the storage locations a download result carries
Locations(d) == DOMAIN d \cap {"local_path", "s3_url"}

\* C17: a result of process_file_download has an error field exactly when
\* its success is false; a successful result carries exactly one of
\* local_path and s3_url, and a failed one carries neither
C17_ErrorIffFailedOneLocation ==
    HasDownloadResult =>
        /\ ("error" \in DOMAIN download_result) <=> ~download_result.success
        /\ download_result.success =>
              /\ Cardinality(Locations(download_result)) = 1
              /\ \A k \in Locations(download_result) : download_result[k] # <<>>
        /\ ~download_result.success => Locations(download_result) = {}

\* a download ended in S3: the result has the remote URL and no local path
C17_Witness ==
    /\ HasDownloadResult
    /\ download_result.success
    /\ Locations(download_result) = {"s3_url"}

\* a download saved locally, and a failed one, are reached as well
LocalAndFailedReached ==
    /\ HasDownloadResult
    /\ \/ Locations(download_result) = {"local_path"}
       \/ ~download_result.success /\ download_result.error = <<"StorageError">>

\* C18: cleaning what clean_html returned gives it back unchanged; markup
\* whose elements hold only an image, a line break or a horizontal rule included
C18_CleanIdempotent ==
    pc = "cleaned_again" => result.value = result.html_content

\* the markup was "<p><img/></p>": clean_html returned "<p></p>", and
\* returned "" for that
ImageOnlyParagraphCleanedTwice ==
    /\ pc = "cleaned_again"
    /\ final_html = <<"<", "p", ">", "<", "i", "m", "g", "/", ">", "<", "/", "p", ">">>
    /\ result.html_content = <<"<", "p", ">", "<", "/", "p", ">">>
    /\ result.value = <<>>

\* C19: html_to_markdown of the empty markup is the empty string;
\* process_html_content of the empty markup has an empty text, title and
\* description and counts of zero; html_to_markdown of
\* "<h1>Title</h1><p>Body.</p>" is "# Title\n\nBody."
C19_EmptyMarkupAndHeadingExample ==
    /\ (pc = "converted" /\ final_html = <<>>) => result.value = <<>>
    /\ (pc = "processed" /\ final_html = <<>>) =>
          /\ result.value.cleaned_html = <<>>
          /\ result.value.text_content = <<>>
          /\ result.value.structured_content.title = <<>>
          /\ result.value.structured_content.headings = <<>>
          /\ result.value.structured_content.paragraphs = <<>>
          /\ result.value.structured_content.lists = <<>>
          /\ result.value.description = <<>>
          /\ result.value.word_count = 0
          /\ result.value.char_count = 0
    /\ (pc = "converted" /\ final_html = PageHeading) =>
          result.value = <<"#", " ", "T", "i", "t", "l", "e", "\n", "\n", "B", "o", "d", "y", ".">>

\* html_to_markdown has returned for "<h1>Title</h1><p>Body.</p>"
C19_Witness ==
    /\ pc = "converted"
    /\ final_html = PageHeading
    /\ result.call = "html_to_markdown"
    /\ result.value # <<>>

\* both functions have returned for the empty markup
EmptyMarkupReached ==
    /\ final_html = <<>>
    /\ pc \in {"converted", "processed"}
    /\ result.html_content = <<>>

\* the header block with every line present
HeaderBlock(title, u, description) ==
    <<"#", " ">> \o title \o <<"\n", "\n">> \o
    <<"*", "*", "S", "o", "u", "r", "c", "e", " ", "U", "R", "L", ":", "*", "*", " ">> \o u \o <<"\n", "\n">> \o
    <<"*", "*", "D", "e", "s", "c", "r", "i", "p", "t", "i", "o", "n", ":", "*", "*", " ">> \o description \o <<"\n", "\n">> \o
    <<"*", "*", "G", "e", "n", "e", "r", "a", "t", "e", "d", ":", "*", "*", " ">> \o now \o <<"\n", "\n">> \o
    <<"-", "-", "-", "\n", "\n">>

\* a page was scraped with success and its Markdown artifact is in the workspace
HasMarkdownArtifact ==
    /\ HasResult
    /\ result.status = "success"
    /\ result.temp_file # <<>>
    /\ Exists(workspace, result.temp_file)

\* the first paragraph of a markup, <<>> if it has none
FirstParagraph(html) ==
    LET paragraphs == extract_structured_content(clean_html(html)).paragraphs
    IN  IF paragraphs = <<>> THEN <<>> ELSE paragraphs[1]

\* C20: the Markdown artifact of a page scraped with success is the header
\* block, with the page's title or "Untitled", the URL, a description and the
\* time, followed by the converted body; for
\* "<title>Hi</title><p>Hello world</p>" the title is "Hi", the description
\* is "Hello world" and the body is "Hello world"
C20_MarkdownArtifactHeader ==
    HasMarkdownArtifact =>
        LET text == ContentOf(workspace, result.temp_file)
            html == result.html_content
            title == IF TitleOf(html) = <<>> THEN <<"U", "n", "t", "i", "t", "l", "e", "d">> ELSE TitleOf(html)
            body == html_to_markdown(clean_and_format_html(html))
        IN  /\ \E description \in { process_html_content(html).description,
                                    FirstParagraph(html) } \ { <<>> } :
                  text = HeaderBlock(title, result.url, description) \o body
            /\ html = PageTitled =>
                  text = HeaderBlock(<<"H", "i">>, result.url, <<"H", "e", "l", "l", "o", " ", "w", "o", "r", "l", "d">>) \o <<"H", "e", "l", "l", "o", " ", "w", "o", "r", "l", "d">>

\* what the artifact of "<title>Hi</title><p>Hello world</p>" holds: the
\* description is the text of the whole page, title included
TitledPageArtifact ==
    (HasMarkdownArtifact /\ result.html_content = PageTitled) =>
        /\ ContentOf(workspace, result.temp_file) =
              HeaderBlock(<<"H", "i">>, result.url, <<"H", "i", " ", "H", "e", "l", "l", "o", " ", "w", "o", "r", "l", "d">>) \o <<"H", "e", "l", "l", "o", " ", "w", "o", "r", "l", "d">>
        /\ result.temp_file[3] = <<"H", "i">>

\* the artifact of "<title>Hi</title><p>Hello world</p>" was written
TitledPageArtifactReached ==
    /\ HasMarkdownArtifact
    /\ result.html_content = PageTitled

\* process_html_content has returned for the markup
Processed == pc = "processed" /\ result.call = "process_html_content"

\* C21: for every input markup, the description of the transformed artifact
\* is at most 200 characters long, being derived from the first 200
\* characters of the extracted plain text
C21_DescriptionAtMost200 ==
    Processed =>
        /\ Len(result.value.description) <= 200
        /\ result.value.description =
              SubSeq(result.value.text_content, 1, Len(result.value.description))

\* what the description of a text of 201 characters is: its first 200
\* characters and three dots, 203 characters
LongTextDescription ==
    (Processed /\ result.html_content = PageLong) =>
        /\ result.value.text_content = LongText
        /\ result.value.description = SubSeq(LongText, 1, 200) \o <<".", ".", ".">>
        /\ Len(result.value.description) = 203

\* process_html_content has returned for the markup with the long text
LongTextProcessed == Processed /\ result.html_content = PageLong

\* extract_structured_content has returned for the markup
Structured == pc = "structured" /\ result.call = "extract_structured_content"

\* the names of the heading elements
HeadingNames == { <<"h", "1">>, <<"h", "2">>, <<"h", "3">>, <<"h", "4">>, <<"h", "5">>, <<"h", "6">> }

\* the headings of a markup in document order, each with its level
HeadingsInDocumentOrder(html) ==
    Let(BeautifulSoup(html), LAMBDA soup :
    Let(Ascending(find_all(soup, HeadingNames)), LAMBDA found :
        [k \in DOMAIN found |-> [ level |-> soup[found[k]].name,
                                  text |-> text_of(soup, found[k]) ]]))

\* C22: extract_structured_content returns the headings in document order,
\* each with its level: of any two headings, whatever their levels, the one
\* that occurs first in the document occurs first in the returned list
C22_HeadingsInDocumentOrder ==
    Structured => result.value.headings = HeadingsInDocumentOrder(result.html_content)

\* what is returned for "<h2>a</h2><h1>b</h1>": the heading of level 1
\* first, though it is the second of the document
HeadingsGroupedByLevel ==
    (Structured /\ result.html_content = PageHeadingsReversed) =>
        result.value.headings = << [level |-> <<"h", "1">>, text |-> <<"b">>],
                                   [level |-> <<"h", "2">>, text |-> <<"a">>] >>

\* extract_structured_content has returned for "<h2>a</h2><h1>b</h1>"
HeadingsReversedStructured == Structured /\ result.html_content = PageHeadingsReversed

\* the names of the list elements
ListNames == { <<"u", "l">>, <<"o", "l">> }

\* the items that are children of the list at node i
DirectItems(soup, i) ==
    Ascending({ j \in find_all_in(soup, i, { <<"l", "i">> }) : soup[j].depth = soup[i].depth + 1 })

\* the text of the nodes from..to outside the lists that start among them
RECURSIVE OwnText(_, _, _)
OwnText(soup, from, to) ==
    IF from > to THEN <<>>
    ELSE IF soup[from].kind = "tag" /\ soup[from].name \in ListNames
    THEN OwnText(soup, SubtreeEnd(soup, from) + 1, to)
    ELSE (IF soup[from].kind = "text" THEN strip(soup[from].data) ELSE <<>>) \o
         OwnText(soup, from + 1, to)

\* the lists of a markup, each with the texts of its own items, the lists
\* nested in an item left out of its text
ListsOfDirectItems(html) ==
    Let(BeautifulSoup(html), LAMBDA soup :
    Let(Ascending(find_all(soup, ListNames)), LAMBDA found :
        SelectSeq([k \in DOMAIN found |->
                     [ type |-> soup[found[k]].name,
                       items |-> Let(DirectItems(soup, found[k]), LAMBDA items :
                                     NonEmpty([n \in DOMAIN items |->
                                                 OwnText(soup, items[n] + 1,
                                                         SubtreeEnd(soup, items[n]))])) ]],
                  LAMBDA l : l.items # <<>>)))

\* C23: for every list element, extract_structured_content reports only the
\* list's direct child items, and the text of an item excludes the text of
\* any sub-list nested inside it; the items of a nested list are not counted
\* as items of the enclosing list
C23_ListsOfDirectItemsOnly ==
    Structured => result.value.lists = ListsOfDirectItems(result.html_content)

\* what is returned for "<ul><li>a<ul><li>b</li></ul></li></ul>": the outer
\* list has the item of the inner list as a second item, and the text of its
\* own item holds the text of the inner list
NestedItemsCounted ==
    (Structured /\ result.html_content = PageNestedList) =>
        result.value.lists = << [type |-> <<"u", "l">>, items |-> << <<"a", "b">>, <<"b">> >>],
                                [type |-> <<"u", "l">>, items |-> << <<"b">> >>] >>

\* extract_structured_content has returned for the markup with the nested list
NestedListStructured == Structured /\ result.html_content = PageNestedList

(***************************************************************************)
(* C25: the threshold and the scraper's settings.                          *)
(***************************************************************************)
\* C25 (as the spec states it): a markup with no strong phrase is reported as
\* a login wall iff the number of distinct weak indicators in it is at least
\* min_login_indicators of the scraper's settings, whatever value k the caller
\* has set there before the run.
C25_ThresholdIsScraperSetting ==
    (JustWallChecked /\ ~HasStrongPhrase(final_html))
        => ( scraping_result.error_type = "login_required"
               <=> Cardinality(WeakIndicatorsIn(final_html))
                      >= scraper_config.min_login_indicators )

\* what the code does: the detector reads the settings object of its own
\* module, which the scraper's settings never reach
ThresholdIsDetectionSetting ==
    (JustWallChecked /\ ~HasStrongPhrase(final_html))
        => ( scraping_result.error_type = "login_required"
               <=> Cardinality(WeakIndicatorsIn(final_html))
                      >= detection_config.min_login_indicators )

\* the scraper's threshold was set to 5 and a markup with four weak
\* indicators was still reported as a login wall
RaisedThresholdIgnored ==
    /\ JustWallChecked
    /\ ~HasStrongPhrase(final_html)
    /\ scraper_config.min_login_indicators = 5
    /\ Cardinality(WeakIndicatorsIn(final_html)) = 4
    /\ scraping_result.error_type = "login_required"

\* the scraper's threshold was set to 3 and a markup with three weak
\* indicators was returned as a page
LoweredThresholdIgnored ==
    /\ JustWallChecked
    /\ ~HasStrongPhrase(final_html)
    /\ scraper_config.min_login_indicators = 3
    /\ Cardinality(WeakIndicatorsIn(final_html)) = 3
    /\ scraping_result.success

(***************************************************************************)
(* C28: nested elements in html_to_markdown.                               *)
(***************************************************************************)
\* the number of times the character c occurs in text
Occurrences(c, text) == Cardinality({ i \in DOMAIN text : text[i] = c })

\* the characters the translation itself writes around the text of an element
MarkdownSyntax == {"#", "*", "-", GRAVE, "[", "]", "(", ")", ">", ".", " ", "\n"}

\* the text of the whole markup: every string of it, once
DocumentText(html) ==
    Let(BeautifulSoup(html), LAMBDA soup : get_text(soup, 1, Len(soup), <<>>))

\* C28 (as the spec states it): html_to_markdown writes the text of an element
\* once, also when the element lies inside another translated element: no
\* character of the markup's text occurs in the Markdown more often than in
\* the text of the markup.
C28_EachElementTranslatedOnce ==
    pc = "converted" =>
        \A c \in Range(DocumentText(final_html)) \ MarkdownSyntax :
            Occurrences(c, result.value) <= Occurrences(c, DocumentText(final_html))

\* what the code does with "<p>a<b>c</b></p>": the paragraph is written with
\* the text of the bold span in it, and the bold span is written again
BoldInParagraphTwice ==
    (pc = "converted" /\ final_html = PageBoldInParagraph) =>
        result.value = <<"a", "c", "\n", "\n", "*", "*", "c", "*", "*">>

\* what the code does with "<ul><li>a<ul><li>b</li></ul></li></ul>": the
\* inner list is written as part of the outer item and again as a list
NestedListTwice ==
    (pc = "converted" /\ final_html = PageNestedList) =>
        Occurrences("b", result.value) = 2

\* html_to_markdown has returned for "<p>a<b>c</b></p>"
BoldInParagraphConverted ==
    /\ pc = "converted"
    /\ final_html = PageBoldInParagraph
    /\ result.call = "html_to_markdown"

(***************************************************************************)
(* C26: the chaining of the rendering steps.                               *)
(***************************************************************************)
\* crawler.arun was called in this step
ArunCalled == Len(arun_log') = Len(arun_log) + 1

\* the call of this step returned with success
ArunSucceeded == ArunCalled /\ step' = step + 1

\* One step of the run, as C26 states it: a rendering step is run on the input
\* URL when it is the first and on the URL the previous step left otherwise;
\* when it succeeds, the URL and status code kept are the ones it returned and
\* the markup kept is the one it returned unless that is empty; nothing else
\* changes what is kept while the steps run; the result of a scrape whose
\* steps all succeeded holds the URL, status code and markup kept.
StepsChained ==
    /\ ArunCalled =>
          arun_log'[Len(arun_log')].url = (IF step = 0 THEN url ELSE final_url)
    /\ ArunSucceeded =>
          \E r \in ArunResponses(arun_log'[Len(arun_log')].url) :
              /\ r.kind = "ok"
              /\ final_url' = r.url
              /\ status_code' = r.status_code
              /\ final_html' = (IF r.html # <<>> THEN r.html ELSE final_html)
    /\ (pc \in {"crawl", "wall"} /\ ~ArunSucceeded) =>
          UNCHANGED <<final_url, status_code, final_html>>
    /\ (pc = "wall" /\ scraping_result'.success) =>
          /\ scraping_result'.url = final_url
          /\ scraping_result'.status_code = status_code
          /\ scraping_result'.html = final_html

\* before the first step nothing is kept: the URL is the input URL, the markup
\* is empty
NothingKeptBeforeFirstStep ==
    (pc = "crawl" /\ step = 0) =>
        final_url = url /\ final_html = <<>> /\ status_code = 0

CleanupReturnedPath ==
    /\ mode = "single"
    /\ pc = "done"
    /\ IF temp_file_path # <<>> /\ Exists(workspace, temp_file_path)
       THEN \E outcome \in RmtreeOutcomes : Rmtree("cleanup_temp_file", outcome)
       ELSE NoRmtree("cleanup_temp_file")
    /\ pc' = "released"
    /\ UNCHANGED << inputVars, batchVars, url, exception, is_downloadable, probe_calls, httpVars,
                    file_counter, artifact_paths, downloads, download_result, crawlVars,
                    scraping_result, temp_file_path, result, stages, transfer_calls,
                    render_calls, copy_calls >>

NextRelease ==
    \/ Next
    \/ CleanupReturnedPath

\* process_single_url and scrape_multiple_websites as in Spec, and the caller
\* of process_single_url releasing what the call returned
SpecRelease == Init /\ [][NextRelease]_vars

\* C27 (as the spec states it): after process_single_url(url) followed by
\* cleanup_temp_file(returned path) no workspace directory created by the call
\* remains, whatever the outcome of the call; a removal that the file system
\* refuses is left aside.
C27_WorkspaceReleasable ==
    (pc = "released" /\ artifact_outcome.outcome \notin {"fails", "fails_midway"})
        => temp_dir = "removed" /\ workspace = {}

\* what the code does: the directory is removed when the call returned the
\* path of an artifact that exists, and only then
ReleasedIffArtifactReturned ==
    (pc = "released" /\ artifact_outcome.outcome \notin {"fails", "fails_midway"})
        => ( temp_dir = "removed" <=> artifact_outcome.outcome = "ok" )

\* the call returned failed and no path; the directory is still there after
\* cleanup_temp_file(None)
FailedRunLeavesDirectory ==
    /\ pc = "released"
    /\ result.status = "failed"
    /\ temp_file_path = <<>>
    /\ artifact_outcome = CleanupCall("cleanup_temp_file", "not_run")
    /\ temp_dir = "open"

\* the same after download_failed
FailedDownloadLeavesDirectory ==
    /\ pc = "released"
    /\ result.status = "download_failed"
    /\ temp_file_path = <<>>
    /\ temp_dir = "open"

\* the same after a success whose artifact could not be made
SuccessWithoutArtifactLeavesDirectory ==
    /\ pc = "released"
    /\ result.status = "success"
    /\ temp_file_path = <<>>
    /\ temp_dir = "open"

\* the call returned the path of an artifact; the directory is gone
ArtifactRunReleased ==
    /\ pc = "released"
    /\ result.status \in {"success", "download_success"}
    /\ temp_file_path # <<>>
    /\ temp_dir = "removed"
    /\ workspace = {}

(***************************************************************************)
(* scap.py: scrape_webpage with navigate_to_page, scroll_to_bottom and     *)
(* get_outer_html, one await at a time, next to crawl/scraper.py's.        *)
(***************************************************************************)
\* login_indicators of scap.py's check_for_login_screen
login_indicators ==
    << <<"l", "o", "g", "i", "n">>, <<"s", "i", "g", "n", " ", "i", "n">>, <<"s", "i", "g", "n", "-", "i", "n">>, <<"s", "i", "g", "n", "i", "n">>, <<"l", "o", "g", " ", "i", "n">>, <<"l", "o", "g", "-", "i", "n">>,
       <<"a", "u", "t", "h", "e", "n", "t", "i", "c", "a", "t", "i", "o", "n">>, <<"a", "u", "t", "h">>, <<"p", "a", "s", "s", "w", "o", "r", "d">>, <<"u", "s", "e", "r", "n", "a", "m", "e">>, <<"e", "m", "a", "i", "l">>,
       <<"c", "r", "e", "a", "t", "e", " ", "a", "c", "c", "o", "u", "n", "t">>, <<"r", "e", "g", "i", "s", "t", "e", "r">>, <<"r", "e", "g", "i", "s", "t", "r", "a", "t", "i", "o", "n">>, <<"s", "u", "b", "s", "c", "r", "i", "b", "e">>,
       <<"p", "a", "y", "w", "a", "l", "l">>, <<"p", "r", "e", "m", "i", "u", "m">>, <<"s", "u", "b", "s", "c", "r", "i", "p", "t", "i", "o", "n">>, <<"a", "c", "c", "e", "s", "s", " ", "d", "e", "n", "i", "e", "d">>,
       <<"p", "l", "e", "a", "s", "e", " ", "l", "o", "g", " ", "i", "n">>, <<"p", "l", "e", "a", "s", "e", " ", "s", "i", "g", "n", " ", "i", "n">>, <<"m", "e", "m", "b", "e", "r", "s", " ", "o", "n", "l", "y">>,
       <<"4", "0", "1", " ", "u", "n", "a", "u", "t", "h", "o", "r", "i", "z", "e", "d">>, <<"4", "0", "3", " ", "f", "o", "r", "b", "i", "d", "d", "e", "n">>, <<"a", "c", "c", "e", "s", "s", " ", "r", "e", "s", "t", "r", "i", "c", "t", "e", "d">> >>

\* scap.py's check_for_login_screen(html): matches >= 3
scap_check_for_login_screen(html) ==
    CountPresent(lower(html), login_indicators) >= 3

\* run_cfg of navigate_to_page
run_cfg ==
    [ wait_for |-> "css:body", page_timeout |-> 60000, session_id |-> "scrape_session" ]

\* scroll_cfg of scroll_to_bottom
scroll_cfg ==
    [ js_code |-> "window.scrollTo(0, document.body.scrollHeight);",
      js_only |-> TRUE,
      session_id |-> "scrape_session",
      delay_before_return_html |-> 2,
      page_timeout |-> 30000 ]

\* html_cfg of get_outer_html
html_cfg ==
    [ js_only |-> TRUE, session_id |-> "scrape_session", page_timeout |-> 30000 ]

\* what the except of scap.py's scrape_webpage leaves alone
scapUnchanged ==
    << inputVars, batchVars, url, exception, is_downloadable, probe_calls, httpVars,
       tempVars, downloads, download_result, temp_file_path, result, stages, callVars >>

\* crawler, result = await navigate_to_page(url): the browser is entered and
\* the page is loaded.  __aenter__ can raise; arun can raise, which leaves the
\* function with the crawler entered; a result without success leaves the
\* crawler through __aexit__ and raises.  Every exception reaches the except
\* of scrape_webpage.
navigate_to_page ==
    /\ pc = "scap_navigate"
    /\ \/ /\ crawler' = "none"
          /\ scraping_result' = ScrapingFailed(<<>>, "BrowserError")
          /\ pc' = "scap_done"
          /\ UNCHANGED <<arun_log, step, final_url, status_code>>
       \/ /\ arun_log' = Append(arun_log, [url |-> url, config |-> run_cfg])
          /\ \E r \in ArunResponses(url) :
                CASE r.kind = "ok" ->
                       /\ crawler' = "open"
                       /\ final_url' = r.url
                       /\ status_code' = r.status_code
                       /\ step' = 1
                       /\ pc' = "scap_scroll"
                       /\ UNCHANGED scraping_result
                  [] r.kind = "not_success" ->
                       /\ crawler' = "closed"
                       /\ scraping_result' = ScrapingFailed(<<>>, "Navigation failed")
                       /\ pc' = "scap_done"
                       /\ UNCHANGED <<step, final_url, status_code>>
                  [] OTHER ->
                       /\ crawler' = "open"
                       /\ scraping_result' = ScrapingFailed(<<>>, "TimeoutError")
                       /\ pc' = "scap_done"
                       /\ UNCHANGED <<step, final_url, status_code>>
    /\ UNCHANGED final_html
    /\ UNCHANGED scapUnchanged

\* await scroll_to_bottom(crawler, result.url): a failure raises and reaches
\* the except of scrape_webpage, which returns the failure
scroll_to_bottom ==
    /\ pc = "scap_scroll"
    /\ arun_log' = Append(arun_log, [url |-> final_url, config |-> scroll_cfg])
    /\ \E r \in ArunResponses(final_url) :
          IF r.kind = "ok"
          THEN /\ step' = 2
               /\ pc' = "scap_capture"
               /\ UNCHANGED scraping_result
          ELSE /\ scraping_result' =
                     ScrapingFailed(<<>>, IF r.kind = "raises" THEN "TimeoutError"
                                          ELSE "Scroll failed")
               /\ pc' = "scap_done"
               /\ UNCHANGED step
    /\ UNCHANGED <<crawler, final_url, status_code, final_html>>
    /\ UNCHANGED scapUnchanged

\* html = await get_outer_html(crawler, result.url): the same on failure
get_outer_html ==
    /\ pc = "scap_capture"
    /\ arun_log' = Append(arun_log, [url |-> final_url, config |-> html_cfg])
    /\ \E r \in ArunResponses(final_url) :
          IF r.kind = "ok"
          THEN /\ final_html' = r.html
               /\ step' = 3
               /\ pc' = "scap_wall"
               /\ UNCHANGED scraping_result
          ELSE /\ scraping_result' =
                     ScrapingFailed(<<>>, IF r.kind = "raises" THEN "TimeoutError"
                                          ELSE "HTML retrieval failed")
               /\ pc' = "scap_done"
               /\ UNCHANGED <<final_html, step>>
    /\ UNCHANGED <<crawler, final_url, status_code>>
    /\ UNCHANGED scapUnchanged

\* if check_for_login_screen(html): ... the crawler is left through __aexit__
\* on both branches, and the dictionary is returned
scap_return ==
    /\ pc = "scap_wall"
    /\ crawler' = "closed"
    /\ scraping_result' = IF scap_check_for_login_screen(final_html)
                          THEN LoginRequired(<<>>)
                          ELSE CrawlSucceeded(final_url, status_code, final_html)
    /\ pc' = "scap_done"
    /\ UNCHANGED <<arun_log, step, final_url, status_code, final_html>>
    /\ UNCHANGED scapUnchanged

\* scrape_webpage(url) of either implementation, on a page URL
InitScrape ==
    /\ scraper_config = config
    /\ tasks = <<>>
    /\ mode = "single"
    /\ urls = <<>>
    /\ idx = 0
    /\ scraped_results = EmptyDict
    /\ temp_dir = "open"
    /\ file_counter = 0
    /\ workspace = {}
    /\ artifact_paths = <<>>
    /\ downloads = {}
    /\ pc \in {"scrape", "scap_navigate"}
    /\ FreshRun(UrlPage)

NextScrape ==
    \/ OpenCrawler
    \/ CrawlStep
    \/ CloseCrawler
    \/ WallCheck
    \/ navigate_to_page
    \/ scroll_to_bottom
    \/ get_outer_html
    \/ scap_return

SpecScrape == InitScrape /\ [][NextScrape]_vars

\* scrape_webpage has returned
ScrapeReturned == pc \in {"after_scrape", "scap_done"}

\* C29 (as the spec states it): in both implementations of scrape_webpage the
\* crawler opened for a URL is closed when the function returns, on success,
\* on a detected wall, and on the failure of the navigate, scroll or capture
\* step.
C29_CrawlerClosedOnEveryExit ==
    ScrapeReturned => crawler # "open"

\* crawl/scraper.py keeps the crawler inside async with: it is closed on every
\* exit
CrawlPackageClosesCrawler ==
    pc = "after_scrape" => crawler # "open"

\* what scap.py does: the crawler is closed on success, on a wall and when the
\* navigation returns without success, and left open when a step raises or
\* the scroll or capture returns without success
ScapClosesOnSuccessOnly ==
    pc = "scap_done" =>
        ( crawler = "open" <=>
            /\ scraping_result.error_type = "scraping_failed"
            /\ scraping_result.error \notin {"BrowserError", "Navigation failed"} )

\* scap.py: the scroll step failed and the crawler is still open
ScrollFailureLeavesCrawlerOpen ==
    /\ pc = "scap_done"
    /\ Len(arun_log) = 2
    /\ scraping_result.error = "Scroll failed"
    /\ crawler = "open"

\* scap.py: the capture step failed and the crawler is still open
CaptureFailureLeavesCrawlerOpen ==
    /\ pc = "scap_done"
    /\ Len(arun_log) = 3
    /\ scraping_result.error = "HTML retrieval failed"
    /\ crawler = "open"

\* scap.py: a wall was detected and the crawler is closed
ScapWallClosed ==
    /\ pc = "scap_done"
    /\ scraping_result.error_type = "login_required"
    /\ crawler = "closed"

(***************************************************************************)
(* Two process_single_url coroutines on one event loop                     *)
(* (crawl/orchestrator.py).  A coroutine runs until it awaits something    *)
(* that suspends it; the loop then runs the other one.  The variables      *)
(* above are the locals of the running coroutine; tasks holds the locals   *)
(* of the suspended one.  Both share the downloads directory of the        *)
(* process; each has the workspace directory of its own TempFileManager.   *)
(***************************************************************************)
\* "http://f.zip/a.pdf": another host serving a file of the same name
UrlPdfMirror == <<"h", "t", "t", "p", ":", "/", "/", "f", ".", "z", "i", "p", "/", "a", ".", "p", "d", "f">>

\* what the two coroutines are started on
ConcurrentPairs == { <<UrlPdf, UrlPdfMirror>>, <<UrlPage, UrlRedirect>> }

\* the locals of the running coroutine
Locals ==
    [ pc |-> pc, url |-> url, exception |-> exception,
      is_downloadable |-> is_downloadable, probe_calls |-> probe_calls,
      head_response |-> head_response, get_response |-> get_response,
      temp_dir |-> temp_dir, file_counter |-> file_counter, workspace |-> workspace,
      artifact_paths |-> artifact_paths, download_result |-> download_result,
      crawler |-> crawler, step |-> step, final_html |-> final_html,
      final_url |-> final_url, status_code |-> status_code, arun_log |-> arun_log,
      scraping_result |-> scraping_result, temp_file_path |-> temp_file_path,
      result |-> result, stages |-> stages, transfer_calls |-> transfer_calls,
      render_calls |-> render_calls, copy_calls |-> copy_calls,
      artifact_outcome |-> artifact_outcome ]

\* the locals of a coroutine that has not run yet
NotStarted(u) ==
    [ pc |-> "start", url |-> u, exception |-> "None",
      is_downloadable |-> FALSE, probe_calls |-> 0,
      head_response |-> NoResponse, get_response |-> NoResponse,
      temp_dir |-> "None", file_counter |-> 0, workspace |-> {},
      artifact_paths |-> <<>>, download_result |-> NoDownload,
      crawler |-> "none", step |-> 0, final_html |-> <<>>,
      final_url |-> u, status_code |-> 0, arun_log |-> <<>>,
      scraping_result |-> NoScrape, temp_file_path |-> <<>>,
      result |-> NoResult, stages |-> <<>>, transfer_calls |-> 0,
      render_calls |-> 0, copy_calls |-> 0,
      artifact_outcome |-> NoArtifactCall ]

\* where process_single_url awaits something that suspends: the HEAD probe of
\* check_if_downloadable, the GET of process_file_download, the start of the
\* browser, and each crawler.arun or the closing of the browser
AwaitPoints == {"classify", "download", "scrape", "crawl"}

\* the coroutine has returned or raised
Finished == {"done", "raised"}

\* The event loop runs the other coroutine: the running one is suspended at
\* an await or has finished, and the other one has not finished.
Switch ==
    /\ tasks # <<>>
    /\ pc \in AwaitPoints \cup Finished
    /\ pc = "classify" => ~is_downloadable_file(url)
    /\ tasks[1].pc \notin Finished
    /\ tasks' = << Locals >>
    /\ pc' = tasks[1].pc
    /\ url' = tasks[1].url
    /\ exception' = tasks[1].exception
    /\ is_downloadable' = tasks[1].is_downloadable
    /\ probe_calls' = tasks[1].probe_calls
    /\ head_response' = tasks[1].head_response
    /\ get_response' = tasks[1].get_response
    /\ temp_dir' = tasks[1].temp_dir
    /\ file_counter' = tasks[1].file_counter
    /\ workspace' = tasks[1].workspace
    /\ artifact_paths' = tasks[1].artifact_paths
    /\ download_result' = tasks[1].download_result
    /\ crawler' = tasks[1].crawler
    /\ step' = tasks[1].step
    /\ final_html' = tasks[1].final_html
    /\ final_url' = tasks[1].final_url
    /\ status_code' = tasks[1].status_code
    /\ arun_log' = tasks[1].arun_log
    /\ scraping_result' = tasks[1].scraping_result
    /\ temp_file_path' = tasks[1].temp_file_path
    /\ result' = tasks[1].result
    /\ stages' = tasks[1].stages
    /\ transfer_calls' = tasks[1].transfer_calls
    /\ render_calls' = tasks[1].render_calls
    /\ copy_calls' = tasks[1].copy_calls
    /\ artifact_outcome' = tasks[1].artifact_outcome
    /\ UNCHANGED << mode, urls, scraper_config, batchVars, downloads >>

InitConcurrent ==
    /\ scraper_config = config
    /\ mode = "single"
    /\ urls = <<>>
    /\ idx = 0
    /\ scraped_results = EmptyDict
    /\ temp_dir = "None"
    /\ file_counter = 0
    /\ workspace = {}
    /\ artifact_paths = <<>>
    /\ downloads = {}
    /\ pc = "start"
    /\ \E pair \in ConcurrentPairs :
          /\ FreshRun(pair[1])
          /\ tasks = << NotStarted(pair[2]) >>

NextConcurrent ==
    \/ OpenWorkspace
    \/ Classify
    \/ Download
    \/ FinishDownload
    \/ OpenCrawler
    \/ CrawlStep
    \/ CloseCrawler
    \/ WallCheck
    \/ FinishWebpage
    \/ Finalize
    \/ Switch

SpecConcurrent == InitConcurrent /\ [][NextConcurrent]_vars

\* the two coroutines, by their locals
Pipelines == {Locals} \cup Range(tasks)

(***************************************************************************)
(* C24: the rendering session of concurrent scrapes.                       *)
(***************************************************************************)
\* the session identifiers of the crawler.arun calls a coroutine has made
SessionIds(p) == { p.arun_log[i].config.session_id : i \in DOMAIN p.arun_log }

\* the scrape_webpage runs of both coroutines overlap: each has its browser
\* open
ScrapesOverlap == tasks # <<>> /\ crawler = "open" /\ tasks[1].crawler = "open"

\* C24 (as the spec states it): the steps of one URL use one session
\* identifier, and two scrape_webpage runs that overlap in time use different
\* session identifiers.
C24_SessionNotShared ==
    /\ \A p \in Pipelines : Cardinality(SessionIds(p)) <= 1
    /\ ScrapesOverlap => SessionIds(Locals) \cap SessionIds(tasks[1]) = {}

\* what the code does: every crawler.arun call of every run is made with the
\* session_id of the module-level settings
EveryRunUsesConfiguredSession ==
    \A p \in Pipelines : SessionIds(p) \subseteq {config.session_id}

\* two runs overlap, each has navigated, and both used the same session
OverlappingRunsShareSession ==
    /\ ScrapesOverlap
    /\ url # tasks[1].url
    /\ arun_log # <<>>
    /\ tasks[1].arun_log # <<>>
    /\ SessionIds(Locals) = SessionIds(tasks[1])

(***************************************************************************)
(* C30: concurrent downloads of files of the same name.                    *)
(***************************************************************************)
\* the coroutine stored its download in the downloads directory and ran the
\* copy into its workspace
CopiedLocalDownload(p) ==
    /\ p.result.status = "download_success"
    /\ p.copy_calls = 1
    /\ p.artifact_outcome.call = "create_temp_document"

\* the coroutine returned the path of an artifact of its workspace that holds
\* the bytes of its own URL
OwnArtifact(p) ==
    /\ p.temp_file_path # <<>>
    /\ Exists(p.workspace, p.temp_file_path)
    /\ ContentOf(p.workspace, p.temp_file_path) = BytesOf(p.url)

\* the file the coroutine downloaded is in the downloads directory with the
\* bytes of its own URL
OwnSourceKept(p) ==
    /\ Exists(downloads, Filename(p.url))
    /\ ContentOf(downloads, Filename(p.url)) = BytesOf(p.url)

\* C30 (as the spec states it): of two process_single_url coroutines on
\* download URLs with the same file name, each one whose download and copy
\* succeed returns its own artifact with the bytes of its own URL, and each
\* one whose copy fails still has its source file in the downloads directory:
\* the other one's download, copy and delete do not take it.
C30_ConcurrentDownloadsIndependent ==
    \A p \in Pipelines :
        CopiedLocalDownload(p) =>
            IF p.artifact_outcome.outcome = "ok" THEN OwnArtifact(p) ELSE OwnSourceKept(p)

\* the part that holds: an artifact that was returned holds the bytes of the
\* coroutine's own URL, whatever the other coroutine did before or after
ReturnedArtifactIsOwn ==
    \A p \in Pipelines :
        (CopiedLocalDownload(p) /\ p.artifact_outcome.outcome = "ok") => OwnArtifact(p)

\* the part that holds: while the other coroutine has not stored a file of
\* the same name, a failed copy leaves the source in place
SourceKeptUntilOtherStores ==
    \A p \in Pipelines :
        ( /\ CopiedLocalDownload(p)
          /\ p.artifact_outcome.outcome # "ok"
          /\ \A q \in Pipelines \ {p} : q.transfer_calls = 0 )
        => OwnSourceKept(p)

\* the copy of one coroutine failed, its source stayed in downloads, and the
\* other coroutine's download of the same file name replaced it
SourceReplacedByOtherDownload ==
    /\ tasks # <<>>
    /\ CopiedLocalDownload(tasks[1])
    /\ tasks[1].artifact_outcome.outcome = "fails"
    /\ tasks[1].pc = "done"
    /\ pc = "after_download"
    /\ Filename(url) = Filename(tasks[1].url)
    /\ ContentOf(downloads, Filename(url)) = BytesOf(url)

\* ... and the other coroutine's copy-then-delete removed it
SourceRemovedByOtherCopy ==
    /\ tasks # <<>>
    /\ CopiedLocalDownload(tasks[1])
    /\ tasks[1].artifact_outcome.outcome = "fails"
    /\ CopiedLocalDownload(Locals)
    /\ OwnArtifact(Locals)
    /\ ~Exists(downloads, Filename(tasks[1].url))

\* both coroutines downloaded a file of the same name, both copies succeeded,
\* and each returned its own artifact
BothArtifactsOwn ==
    /\ tasks # <<>>
    /\ url # tasks[1].url
    /\ Filename(url) = Filename(tasks[1].url)
    /\ OwnArtifact(Locals) /\ CopiedLocalDownload(Locals)
    /\ OwnArtifact(tasks[1]) /\ CopiedLocalDownload(tasks[1])

====
